---- MODULE Spec2Model ----
(***************************************************************************)
(* Model of download_bac_exams.py: harvesting of candidate exam assets,    *)
(* reconciliation into assets_by_key, gap synthesis with an existence      *)
(* probe, the Fetch & Validate loop over the final merged map, and the     *)
(* two manifest files that write_metadata leaves.                          *)
(*                                                                         *)
(* A Python str is the sequence of the code points of its characters       *)
(* (0..1114111), a bytes object the sequence of its bytes (0..255), a Path *)
(* the str that str(path) gives.  S("text") is the str, or the bytes, that *)
(* the literal "text" denotes.  None and the ValueError that a call raises *)
(* are values that no str and no bytes object equals.  The text helpers    *)
(* (lower, in, startswith, endswith, lstrip, strip, isdigit, re.sub, str,  *)
(* int, quote, unquote, parse_qs, urlparse, urljoin, json.dump,            *)
(* csv.DictWriter) are computed character by character, as the calls of    *)
(* Python 3.11 compute them, with the tables of its Unicode database       *)
(* (Unicode 14).                                                           *)
(***************************************************************************)
EXTENDS Integers, Sequences, FiniteSets, TLC

\* ------------------------------------------------------------------------
\* Bounds of the model
\* ------------------------------------------------------------------------

\* Number of years of YEARS that the model enumerates, from FirstYear on
\* (the program enumerates 17: range(2008, 2025)).
NumYears == 1

\* The environment events of one behaviour.  Without events the pages are
\* fetched and hold no anchor, every probe answers 200 and every download
\* streams NominalBody.  A source page that cannot be fetched is one event,
\* a source page that holds anchors is one, and so is a download of a
\* harvested candidate that is refused, is interrupted or streams another
\* body than NominalBody: a behaviour of Spec has up to MaxEvents of these.
\* A file present before the run, a probe that fails and such a download of
\* a synthesized fallback candidate happen alone: each is the only event of
\* its behaviour.
MaxEvents == 2

\* The events of one behaviour of FairSpec.
MaxFairEvents == 1

\* Number of candidates that the source pages of one behaviour yield.
MaxHarvest == 4

\* ------------------------------------------------------------------------
\* Text helpers (Python str / bytes methods)
\* ------------------------------------------------------------------------

\* None: no sequence of code points or of bytes.
None == <<-1>>

\* What a call gives in the model when the Python call raises ValueError: no
\* sequence of code points either.
ValueError == <<-2>>

\* A local value that Python computes once, however often the code that
\* follows uses it, is bound the same way here:
\*     CHOOSE only \in {(body) : v \in {value}} : TRUE
\* is body with v standing for value.

\* The characters that the literals of the model are written with, by code
\* point: the character of code point n is at place n, for n in 1..255
\* (place 96 is not used).
Latin1 ==
    "\t\n\f\r"
    \o " !\"#$%&'()*+,-./0123456789:;<=>?"
    \o "@ABCDEFGHIJKLMNOPQRSTUVWXYZ[\\]^_"
    \o "�abcdefghijklmnopqrstuvwxyz{|}~"
    \o ""
    \o " ¡¢£¤¥¦§¨©ª«¬­®¯°±²³´µ¶·¸¹º»¼½¾¿"
    \o "ÀÁÂÃÄÅÆÇÈÉÊËÌÍÎÏÐÑÒÓÔÕÖ×ØÙÚÛÜÝÞß"
    \o "àáâãäåæçèéêëìíîïðñòóôõö÷øùúûüýþÿ"

\* ord(c) for the one-character literals, computed once.
OrdTable ==
    [c \in {SubSeq(Latin1, n, n) : n \in (1..255) \ {96}} |->
        CHOOSE n \in (1..255) \ {96} : SubSeq(Latin1, n, n) = c]

\* The str, or the bytes, that a literal denotes.
S(text) == [i \in 1..Len(text) |-> OrdTable[SubSeq(text, i, i)]]

\* ord(c) of a one-character literal
Ord(c) == OrdTable[c]

\* c is in one of the ranges <<first, last>> of table.
InRanges(c, table) ==
    \E r \in 1..Len(table) : table[r][1] <= c /\ c <= table[r][2]

\* The simple lower case mapping of the Unicode 14 character database (that
\* of Python 3.11), as runs <<first, last, step, delta>>: the characters
\* first, first + step, ..., last have the lower case delta code points
\* further.  Every other character is its own lower case, U+0130 apart.
LowerRuns ==
    << <<65, 90, 1, 32>>, <<192, 214, 1, 32>>, <<216, 222, 1, 32>>,
       <<256, 302, 2, 1>>, <<306, 310, 2, 1>>, <<313, 327, 2, 1>>,
       <<330, 374, 2, 1>>, <<376, 376, 1, 0 - 121>>, <<377, 381, 2, 1>>,
       <<385, 385, 1, 210>>, <<386, 388, 2, 1>>, <<390, 390, 1, 206>>,
       <<391, 391, 1, 1>>, <<393, 394, 1, 205>>, <<395, 395, 1, 1>>,
       <<398, 398, 1, 79>>, <<399, 399, 1, 202>>, <<400, 400, 1, 203>>,
       <<401, 401, 1, 1>>, <<403, 403, 1, 205>>, <<404, 404, 1, 207>>,
       <<406, 406, 1, 211>>, <<407, 407, 1, 209>>, <<408, 408, 1, 1>>,
       <<412, 412, 1, 211>>, <<413, 413, 1, 213>>, <<415, 415, 1, 214>>,
       <<416, 420, 2, 1>>, <<422, 422, 1, 218>>, <<423, 423, 1, 1>>,
       <<425, 425, 1, 218>>, <<428, 428, 1, 1>>, <<430, 430, 1, 218>>,
       <<431, 431, 1, 1>>, <<433, 434, 1, 217>>, <<435, 437, 2, 1>>,
       <<439, 439, 1, 219>>, <<440, 440, 1, 1>>, <<444, 444, 1, 1>>,
       <<452, 452, 1, 2>>, <<453, 453, 1, 1>>, <<455, 455, 1, 2>>,
       <<456, 456, 1, 1>>, <<458, 458, 1, 2>>, <<459, 475, 2, 1>>,
       <<478, 494, 2, 1>>, <<497, 497, 1, 2>>, <<498, 500, 2, 1>>,
       <<502, 502, 1, 0 - 97>>, <<503, 503, 1, 0 - 56>>, <<504, 542, 2, 1>>,
       <<544, 544, 1, 0 - 130>>, <<546, 562, 2, 1>>, <<570, 570, 1, 10795>>,
       <<571, 571, 1, 1>>, <<573, 573, 1, 0 - 163>>, <<574, 574, 1, 10792>>,
       <<577, 577, 1, 1>>, <<579, 579, 1, 0 - 195>>, <<580, 580, 1, 69>>,
       <<581, 581, 1, 71>>, <<582, 590, 2, 1>>, <<880, 882, 2, 1>>,
       <<886, 886, 1, 1>>, <<895, 895, 1, 116>>, <<902, 902, 1, 38>>,
       <<904, 906, 1, 37>>, <<908, 908, 1, 64>>, <<910, 911, 1, 63>>,
       <<913, 929, 1, 32>>, <<931, 939, 1, 32>>, <<975, 975, 1, 8>>,
       <<984, 1006, 2, 1>>, <<1012, 1012, 1, 0 - 60>>, <<1015, 1015, 1, 1>>,
       <<1017, 1017, 1, 0 - 7>>, <<1018, 1018, 1, 1>>,
       <<1021, 1023, 1, 0 - 130>>, <<1024, 1039, 1, 80>>,
       <<1040, 1071, 1, 32>>, <<1120, 1152, 2, 1>>, <<1162, 1214, 2, 1>>,
       <<1216, 1216, 1, 15>>, <<1217, 1229, 2, 1>>, <<1232, 1326, 2, 1>>,
       <<1329, 1366, 1, 48>>, <<4256, 4293, 1, 7264>>,
       <<4295, 4295, 1, 7264>>, <<4301, 4301, 1, 7264>>,
       <<5024, 5103, 1, 38864>>, <<5104, 5109, 1, 8>>,
       <<7312, 7354, 1, 0 - 3008>>, <<7357, 7359, 1, 0 - 3008>>,
       <<7680, 7828, 2, 1>>, <<7838, 7838, 1, 0 - 7615>>,
       <<7840, 7934, 2, 1>>, <<7944, 7951, 1, 0 - 8>>,
       <<7960, 7965, 1, 0 - 8>>, <<7976, 7983, 1, 0 - 8>>,
       <<7992, 7999, 1, 0 - 8>>, <<8008, 8013, 1, 0 - 8>>,
       <<8025, 8031, 2, 0 - 8>>, <<8040, 8047, 1, 0 - 8>>,
       <<8072, 8079, 1, 0 - 8>>, <<8088, 8095, 1, 0 - 8>>,
       <<8104, 8111, 1, 0 - 8>>, <<8120, 8121, 1, 0 - 8>>,
       <<8122, 8123, 1, 0 - 74>>, <<8124, 8124, 1, 0 - 9>>,
       <<8136, 8139, 1, 0 - 86>>, <<8140, 8140, 1, 0 - 9>>,
       <<8152, 8153, 1, 0 - 8>>, <<8154, 8155, 1, 0 - 100>>,
       <<8168, 8169, 1, 0 - 8>>, <<8170, 8171, 1, 0 - 112>>,
       <<8172, 8172, 1, 0 - 7>>, <<8184, 8185, 1, 0 - 128>>,
       <<8186, 8187, 1, 0 - 126>>, <<8188, 8188, 1, 0 - 9>>,
       <<8486, 8486, 1, 0 - 7517>>, <<8490, 8490, 1, 0 - 8383>>,
       <<8491, 8491, 1, 0 - 8262>>, <<8498, 8498, 1, 28>>,
       <<8544, 8559, 1, 16>>, <<8579, 8579, 1, 1>>, <<9398, 9423, 1, 26>>,
       <<11264, 11311, 1, 48>>, <<11360, 11360, 1, 1>>,
       <<11362, 11362, 1, 0 - 10743>>, <<11363, 11363, 1, 0 - 3814>>,
       <<11364, 11364, 1, 0 - 10727>>, <<11367, 11371, 2, 1>>,
       <<11373, 11373, 1, 0 - 10780>>, <<11374, 11374, 1, 0 - 10749>>,
       <<11375, 11375, 1, 0 - 10783>>, <<11376, 11376, 1, 0 - 10782>>,
       <<11378, 11378, 1, 1>>, <<11381, 11381, 1, 1>>,
       <<11390, 11391, 1, 0 - 10815>>, <<11392, 11490, 2, 1>>,
       <<11499, 11501, 2, 1>>, <<11506, 11506, 1, 1>>,
       <<42560, 42604, 2, 1>>, <<42624, 42650, 2, 1>>,
       <<42786, 42798, 2, 1>>, <<42802, 42862, 2, 1>>,
       <<42873, 42875, 2, 1>>, <<42877, 42877, 1, 0 - 35332>>,
       <<42878, 42886, 2, 1>>, <<42891, 42891, 1, 1>>,
       <<42893, 42893, 1, 0 - 42280>>, <<42896, 42898, 2, 1>>,
       <<42902, 42920, 2, 1>>, <<42922, 42922, 1, 0 - 42308>>,
       <<42923, 42923, 1, 0 - 42319>>, <<42924, 42924, 1, 0 - 42315>>,
       <<42925, 42925, 1, 0 - 42305>>, <<42926, 42926, 1, 0 - 42308>>,
       <<42928, 42928, 1, 0 - 42258>>, <<42929, 42929, 1, 0 - 42282>>,
       <<42930, 42930, 1, 0 - 42261>>, <<42931, 42931, 1, 928>>,
       <<42932, 42946, 2, 1>>, <<42948, 42948, 1, 0 - 48>>,
       <<42949, 42949, 1, 0 - 42307>>, <<42950, 42950, 1, 0 - 35384>>,
       <<42951, 42953, 2, 1>>, <<42960, 42960, 1, 1>>,
       <<42966, 42968, 2, 1>>, <<42997, 42997, 1, 1>>,
       <<65313, 65338, 1, 32>>, <<66560, 66599, 1, 40>>,
       <<66736, 66771, 1, 40>>, <<66928, 66964, 2, 39>>,
       <<66929, 66938, 1, 39>>, <<66941, 66954, 1, 39>>,
       <<66957, 66962, 1, 39>>, <<66965, 66965, 1, 39>>,
       <<68736, 68786, 1, 64>>, <<71840, 71871, 1, 32>>,
       <<93760, 93791, 1, 32>>, <<125184, 125217, 1, 34>> >>

\* The characters that str.lower() passes over when it looks for the cased
\* letter before and after a capital sigma (Case_Ignorable), as ranges
\* <<first, last>>.
CaseIgnorable ==
    << <<39, 39>>, <<46, 46>>, <<58, 58>>, <<94, 94>>, <<96, 96>>,
       <<168, 168>>, <<173, 173>>, <<175, 175>>, <<180, 180>>, <<183, 184>>,
       <<688, 879>>, <<884, 885>>, <<890, 890>>, <<900, 901>>, <<903, 903>>,
       <<1155, 1161>>, <<1369, 1369>>, <<1375, 1375>>, <<1425, 1469>>,
       <<1471, 1471>>, <<1473, 1474>>, <<1476, 1477>>, <<1479, 1479>>,
       <<1524, 1524>>, <<1536, 1541>>, <<1552, 1562>>, <<1564, 1564>>,
       <<1600, 1600>>, <<1611, 1631>>, <<1648, 1648>>, <<1750, 1757>>,
       <<1759, 1768>>, <<1770, 1773>>, <<1807, 1807>>, <<1809, 1809>>,
       <<1840, 1866>>, <<1958, 1968>>, <<2027, 2037>>, <<2042, 2042>>,
       <<2045, 2045>>, <<2070, 2093>>, <<2137, 2139>>, <<2184, 2184>>,
       <<2192, 2193>>, <<2200, 2207>>, <<2249, 2306>>, <<2362, 2362>>,
       <<2364, 2364>>, <<2369, 2376>>, <<2381, 2381>>, <<2385, 2391>>,
       <<2402, 2403>>, <<2417, 2417>>, <<2433, 2433>>, <<2492, 2492>>,
       <<2497, 2500>>, <<2509, 2509>>, <<2530, 2531>>, <<2558, 2558>>,
       <<2561, 2562>>, <<2620, 2620>>, <<2625, 2626>>, <<2631, 2632>>,
       <<2635, 2637>>, <<2641, 2641>>, <<2672, 2673>>, <<2677, 2677>>,
       <<2689, 2690>>, <<2748, 2748>>, <<2753, 2757>>, <<2759, 2760>>,
       <<2765, 2765>>, <<2786, 2787>>, <<2810, 2815>>, <<2817, 2817>>,
       <<2876, 2876>>, <<2879, 2879>>, <<2881, 2884>>, <<2893, 2893>>,
       <<2901, 2902>>, <<2914, 2915>>, <<2946, 2946>>, <<3008, 3008>>,
       <<3021, 3021>>, <<3072, 3072>>, <<3076, 3076>>, <<3132, 3132>>,
       <<3134, 3136>>, <<3142, 3144>>, <<3146, 3149>>, <<3157, 3158>>,
       <<3170, 3171>>, <<3201, 3201>>, <<3260, 3260>>, <<3263, 3263>>,
       <<3270, 3270>>, <<3276, 3277>>, <<3298, 3299>>, <<3328, 3329>>,
       <<3387, 3388>>, <<3393, 3396>>, <<3405, 3405>>, <<3426, 3427>>,
       <<3457, 3457>>, <<3530, 3530>>, <<3538, 3540>>, <<3542, 3542>>,
       <<3633, 3633>>, <<3636, 3642>>, <<3654, 3662>>, <<3761, 3761>>,
       <<3764, 3772>>, <<3782, 3782>>, <<3784, 3789>>, <<3864, 3865>>,
       <<3893, 3893>>, <<3895, 3895>>, <<3897, 3897>>, <<3953, 3966>>,
       <<3968, 3972>>, <<3974, 3975>>, <<3981, 3991>>, <<3993, 4028>>,
       <<4038, 4038>>, <<4141, 4144>>, <<4146, 4151>>, <<4153, 4154>>,
       <<4157, 4158>>, <<4184, 4185>>, <<4190, 4192>>, <<4209, 4212>>,
       <<4226, 4226>>, <<4229, 4230>>, <<4237, 4237>>, <<4253, 4253>>,
       <<4348, 4348>>, <<4957, 4959>>, <<5906, 5908>>, <<5938, 5939>>,
       <<5970, 5971>>, <<6002, 6003>>, <<6068, 6069>>, <<6071, 6077>>,
       <<6086, 6086>>, <<6089, 6099>>, <<6103, 6103>>, <<6109, 6109>>,
       <<6155, 6159>>, <<6211, 6211>>, <<6277, 6278>>, <<6313, 6313>>,
       <<6432, 6434>>, <<6439, 6440>>, <<6450, 6450>>, <<6457, 6459>>,
       <<6679, 6680>>, <<6683, 6683>>, <<6742, 6742>>, <<6744, 6750>>,
       <<6752, 6752>>, <<6754, 6754>>, <<6757, 6764>>, <<6771, 6780>>,
       <<6783, 6783>>, <<6823, 6823>>, <<6832, 6862>>, <<6912, 6915>>,
       <<6964, 6964>>, <<6966, 6970>>, <<6972, 6972>>, <<6978, 6978>>,
       <<7019, 7027>>, <<7040, 7041>>, <<7074, 7077>>, <<7080, 7081>>,
       <<7083, 7085>>, <<7142, 7142>>, <<7144, 7145>>, <<7149, 7149>>,
       <<7151, 7153>>, <<7212, 7219>>, <<7222, 7223>>, <<7288, 7293>>,
       <<7376, 7378>>, <<7380, 7392>>, <<7394, 7400>>, <<7405, 7405>>,
       <<7412, 7412>>, <<7416, 7417>>, <<7468, 7530>>, <<7544, 7544>>,
       <<7579, 7679>>, <<8125, 8125>>, <<8127, 8129>>, <<8141, 8143>>,
       <<8157, 8159>>, <<8173, 8175>>, <<8189, 8190>>, <<8203, 8207>>,
       <<8216, 8217>>, <<8228, 8228>>, <<8231, 8231>>, <<8234, 8238>>,
       <<8288, 8292>>, <<8294, 8303>>, <<8305, 8305>>, <<8319, 8319>>,
       <<8336, 8348>>, <<8400, 8432>>, <<11388, 11389>>, <<11503, 11505>>,
       <<11631, 11631>>, <<11647, 11647>>, <<11744, 11775>>,
       <<11823, 11823>>, <<12293, 12293>>, <<12330, 12333>>,
       <<12337, 12341>>, <<12347, 12347>>, <<12441, 12446>>,
       <<12540, 12542>>, <<40981, 40981>>, <<42232, 42237>>,
       <<42508, 42508>>, <<42607, 42610>>, <<42612, 42621>>,
       <<42623, 42623>>, <<42652, 42655>>, <<42736, 42737>>,
       <<42752, 42785>>, <<42864, 42864>>, <<42888, 42890>>,
       <<42994, 42996>>, <<43000, 43001>>, <<43010, 43010>>,
       <<43014, 43014>>, <<43019, 43019>>, <<43045, 43046>>,
       <<43052, 43052>>, <<43204, 43205>>, <<43232, 43249>>,
       <<43263, 43263>>, <<43302, 43309>>, <<43335, 43345>>,
       <<43392, 43394>>, <<43443, 43443>>, <<43446, 43449>>,
       <<43452, 43453>>, <<43471, 43471>>, <<43493, 43494>>,
       <<43561, 43566>>, <<43569, 43570>>, <<43573, 43574>>,
       <<43587, 43587>>, <<43596, 43596>>, <<43632, 43632>>,
       <<43644, 43644>>, <<43696, 43696>>, <<43698, 43700>>,
       <<43703, 43704>>, <<43710, 43711>>, <<43713, 43713>>,
       <<43741, 43741>>, <<43756, 43757>>, <<43763, 43764>>,
       <<43766, 43766>>, <<43867, 43871>>, <<43881, 43883>>,
       <<44005, 44005>>, <<44008, 44008>>, <<44013, 44013>>,
       <<64286, 64286>>, <<64434, 64450>>, <<65024, 65039>>,
       <<65043, 65043>>, <<65056, 65071>>, <<65106, 65106>>,
       <<65109, 65109>>, <<65279, 65279>>, <<65287, 65287>>,
       <<65294, 65294>>, <<65306, 65306>>, <<65342, 65342>>,
       <<65344, 65344>>, <<65392, 65392>>, <<65438, 65439>>,
       <<65507, 65507>>, <<65529, 65531>>, <<66045, 66045>>,
       <<66272, 66272>>, <<66422, 66426>>, <<67456, 67461>>,
       <<67463, 67504>>, <<67506, 67514>>, <<68097, 68099>>,
       <<68101, 68102>>, <<68108, 68111>>, <<68152, 68154>>,
       <<68159, 68159>>, <<68325, 68326>>, <<68900, 68903>>,
       <<69291, 69292>>, <<69446, 69456>>, <<69506, 69509>>,
       <<69633, 69633>>, <<69688, 69702>>, <<69744, 69744>>,
       <<69747, 69748>>, <<69759, 69761>>, <<69811, 69814>>,
       <<69817, 69818>>, <<69821, 69821>>, <<69826, 69826>>,
       <<69837, 69837>>, <<69888, 69890>>, <<69927, 69931>>,
       <<69933, 69940>>, <<70003, 70003>>, <<70016, 70017>>,
       <<70070, 70078>>, <<70089, 70092>>, <<70095, 70095>>,
       <<70191, 70193>>, <<70196, 70196>>, <<70198, 70199>>,
       <<70206, 70206>>, <<70367, 70367>>, <<70371, 70378>>,
       <<70400, 70401>>, <<70459, 70460>>, <<70464, 70464>>,
       <<70502, 70508>>, <<70512, 70516>>, <<70712, 70719>>,
       <<70722, 70724>>, <<70726, 70726>>, <<70750, 70750>>,
       <<70835, 70840>>, <<70842, 70842>>, <<70847, 70848>>,
       <<70850, 70851>>, <<71090, 71093>>, <<71100, 71101>>,
       <<71103, 71104>>, <<71132, 71133>>, <<71219, 71226>>,
       <<71229, 71229>>, <<71231, 71232>>, <<71339, 71339>>,
       <<71341, 71341>>, <<71344, 71349>>, <<71351, 71351>>,
       <<71453, 71455>>, <<71458, 71461>>, <<71463, 71467>>,
       <<71727, 71735>>, <<71737, 71738>>, <<71995, 71996>>,
       <<71998, 71998>>, <<72003, 72003>>, <<72148, 72151>>,
       <<72154, 72155>>, <<72160, 72160>>, <<72193, 72202>>,
       <<72243, 72248>>, <<72251, 72254>>, <<72263, 72263>>,
       <<72273, 72278>>, <<72281, 72283>>, <<72330, 72342>>,
       <<72344, 72345>>, <<72752, 72758>>, <<72760, 72765>>,
       <<72767, 72767>>, <<72850, 72871>>, <<72874, 72880>>,
       <<72882, 72883>>, <<72885, 72886>>, <<73009, 73014>>,
       <<73018, 73018>>, <<73020, 73021>>, <<73023, 73029>>,
       <<73031, 73031>>, <<73104, 73105>>, <<73109, 73109>>,
       <<73111, 73111>>, <<73459, 73460>>, <<78896, 78904>>,
       <<92912, 92916>>, <<92976, 92982>>, <<92992, 92995>>,
       <<94031, 94031>>, <<94095, 94111>>, <<94176, 94177>>,
       <<94179, 94180>>, <<110576, 110579>>, <<110581, 110587>>,
       <<110589, 110590>>, <<113821, 113822>>, <<113824, 113827>>,
       <<118528, 118573>>, <<118576, 118598>>, <<119143, 119145>>,
       <<119155, 119170>>, <<119173, 119179>>, <<119210, 119213>>,
       <<119362, 119364>>, <<121344, 121398>>, <<121403, 121452>>,
       <<121461, 121461>>, <<121476, 121476>>, <<121499, 121503>>,
       <<121505, 121519>>, <<122880, 122886>>, <<122888, 122904>>,
       <<122907, 122913>>, <<122915, 122916>>, <<122918, 122922>>,
       <<123184, 123197>>, <<123566, 123566>>, <<123628, 123631>>,
       <<125136, 125142>>, <<125252, 125259>>, <<127995, 127999>>,
       <<917505, 917505>>, <<917536, 917631>>, <<917760, 917999>> >>

\* The cased characters among those that are not Case_Ignorable, as ranges
\* <<first, last>>.
Cased ==
    << <<65, 90>>, <<97, 122>>, <<170, 170>>, <<181, 181>>, <<186, 186>>,
       <<192, 214>>, <<216, 246>>, <<248, 442>>, <<444, 447>>, <<452, 659>>,
       <<661, 687>>, <<880, 883>>, <<886, 887>>, <<891, 893>>, <<895, 895>>,
       <<902, 902>>, <<904, 906>>, <<908, 908>>, <<910, 929>>, <<931, 1013>>,
       <<1015, 1153>>, <<1162, 1327>>, <<1329, 1366>>, <<1376, 1416>>,
       <<4256, 4293>>, <<4295, 4295>>, <<4301, 4301>>, <<4304, 4346>>,
       <<4349, 4351>>, <<5024, 5109>>, <<5112, 5117>>, <<7296, 7304>>,
       <<7312, 7354>>, <<7357, 7359>>, <<7424, 7467>>, <<7531, 7543>>,
       <<7545, 7578>>, <<7680, 7957>>, <<7960, 7965>>, <<7968, 8005>>,
       <<8008, 8013>>, <<8016, 8023>>, <<8025, 8025>>, <<8027, 8027>>,
       <<8029, 8029>>, <<8031, 8061>>, <<8064, 8116>>, <<8118, 8124>>,
       <<8126, 8126>>, <<8130, 8132>>, <<8134, 8140>>, <<8144, 8147>>,
       <<8150, 8155>>, <<8160, 8172>>, <<8178, 8180>>, <<8182, 8188>>,
       <<8450, 8450>>, <<8455, 8455>>, <<8458, 8467>>, <<8469, 8469>>,
       <<8473, 8477>>, <<8484, 8484>>, <<8486, 8486>>, <<8488, 8488>>,
       <<8490, 8493>>, <<8495, 8500>>, <<8505, 8505>>, <<8508, 8511>>,
       <<8517, 8521>>, <<8526, 8526>>, <<8544, 8575>>, <<8579, 8580>>,
       <<9398, 9449>>, <<11264, 11387>>, <<11390, 11492>>, <<11499, 11502>>,
       <<11506, 11507>>, <<11520, 11557>>, <<11559, 11559>>,
       <<11565, 11565>>, <<42560, 42605>>, <<42624, 42651>>,
       <<42786, 42863>>, <<42865, 42887>>, <<42891, 42894>>,
       <<42896, 42954>>, <<42960, 42961>>, <<42963, 42963>>,
       <<42965, 42969>>, <<42997, 42998>>, <<43002, 43002>>,
       <<43824, 43866>>, <<43872, 43880>>, <<43888, 43967>>,
       <<64256, 64262>>, <<64275, 64279>>, <<65313, 65338>>,
       <<65345, 65370>>, <<66560, 66639>>, <<66736, 66771>>,
       <<66776, 66811>>, <<66928, 66938>>, <<66940, 66954>>,
       <<66956, 66962>>, <<66964, 66965>>, <<66967, 66977>>,
       <<66979, 66993>>, <<66995, 67001>>, <<67003, 67004>>,
       <<68736, 68786>>, <<68800, 68850>>, <<71840, 71903>>,
       <<93760, 93823>>, <<119808, 119892>>, <<119894, 119964>>,
       <<119966, 119967>>, <<119970, 119970>>, <<119973, 119974>>,
       <<119977, 119980>>, <<119982, 119993>>, <<119995, 119995>>,
       <<119997, 120003>>, <<120005, 120069>>, <<120071, 120074>>,
       <<120077, 120084>>, <<120086, 120092>>, <<120094, 120121>>,
       <<120123, 120126>>, <<120128, 120132>>, <<120134, 120134>>,
       <<120138, 120144>>, <<120146, 120485>>, <<120488, 120512>>,
       <<120514, 120538>>, <<120540, 120570>>, <<120572, 120596>>,
       <<120598, 120628>>, <<120630, 120654>>, <<120656, 120686>>,
       <<120688, 120712>>, <<120714, 120744>>, <<120746, 120770>>,
       <<120772, 120779>>, <<122624, 122633>>, <<122635, 122654>>,
       <<125184, 125251>>, <<127280, 127305>>, <<127312, 127337>>,
       <<127344, 127369>> >>

\* The characters c with c.isdigit(), as ranges <<first, last>>.
DigitRanges ==
    << <<48, 57>>, <<178, 179>>, <<185, 185>>, <<1632, 1641>>,
       <<1776, 1785>>, <<1984, 1993>>, <<2406, 2415>>, <<2534, 2543>>,
       <<2662, 2671>>, <<2790, 2799>>, <<2918, 2927>>, <<3046, 3055>>,
       <<3174, 3183>>, <<3302, 3311>>, <<3430, 3439>>, <<3558, 3567>>,
       <<3664, 3673>>, <<3792, 3801>>, <<3872, 3881>>, <<4160, 4169>>,
       <<4240, 4249>>, <<4969, 4977>>, <<6112, 6121>>, <<6160, 6169>>,
       <<6470, 6479>>, <<6608, 6618>>, <<6784, 6793>>, <<6800, 6809>>,
       <<6992, 7001>>, <<7088, 7097>>, <<7232, 7241>>, <<7248, 7257>>,
       <<8304, 8304>>, <<8308, 8313>>, <<8320, 8329>>, <<9312, 9320>>,
       <<9332, 9340>>, <<9352, 9360>>, <<9450, 9450>>, <<9461, 9469>>,
       <<9471, 9471>>, <<10102, 10110>>, <<10112, 10120>>, <<10122, 10130>>,
       <<42528, 42537>>, <<43216, 43225>>, <<43264, 43273>>,
       <<43472, 43481>>, <<43504, 43513>>, <<43600, 43609>>,
       <<44016, 44025>>, <<65296, 65305>>, <<66720, 66729>>,
       <<68160, 68163>>, <<68912, 68921>>, <<69216, 69224>>,
       <<69714, 69722>>, <<69734, 69743>>, <<69872, 69881>>,
       <<69942, 69951>>, <<70096, 70105>>, <<70384, 70393>>,
       <<70736, 70745>>, <<70864, 70873>>, <<71248, 71257>>,
       <<71360, 71369>>, <<71472, 71481>>, <<71904, 71913>>,
       <<72016, 72025>>, <<72784, 72793>>, <<73040, 73049>>,
       <<73120, 73129>>, <<92768, 92777>>, <<92864, 92873>>,
       <<93008, 93017>>, <<120782, 120831>>, <<123200, 123209>>,
       <<123632, 123641>>, <<125264, 125273>>, <<127232, 127242>>,
       <<130032, 130041>> >>

\* The decimal digits (category Nd), those that \d matches and int() reads,
\* as ranges <<first, last>>: every range is made of runs of the ten digits
\* 0 to 9 in order.
DecimalRanges ==
    << <<48, 57>>, <<1632, 1641>>, <<1776, 1785>>, <<1984, 1993>>,
       <<2406, 2415>>, <<2534, 2543>>, <<2662, 2671>>, <<2790, 2799>>,
       <<2918, 2927>>, <<3046, 3055>>, <<3174, 3183>>, <<3302, 3311>>,
       <<3430, 3439>>, <<3558, 3567>>, <<3664, 3673>>, <<3792, 3801>>,
       <<3872, 3881>>, <<4160, 4169>>, <<4240, 4249>>, <<6112, 6121>>,
       <<6160, 6169>>, <<6470, 6479>>, <<6608, 6617>>, <<6784, 6793>>,
       <<6800, 6809>>, <<6992, 7001>>, <<7088, 7097>>, <<7232, 7241>>,
       <<7248, 7257>>, <<42528, 42537>>, <<43216, 43225>>, <<43264, 43273>>,
       <<43472, 43481>>, <<43504, 43513>>, <<43600, 43609>>,
       <<44016, 44025>>, <<65296, 65305>>, <<66720, 66729>>,
       <<68912, 68921>>, <<69734, 69743>>, <<69872, 69881>>,
       <<69942, 69951>>, <<70096, 70105>>, <<70384, 70393>>,
       <<70736, 70745>>, <<70864, 70873>>, <<71248, 71257>>,
       <<71360, 71369>>, <<71472, 71481>>, <<71904, 71913>>,
       <<72016, 72025>>, <<72784, 72793>>, <<73040, 73049>>,
       <<73120, 73129>>, <<92768, 92777>>, <<92864, 92873>>,
       <<93008, 93017>>, <<120782, 120831>>, <<123200, 123209>>,
       <<123632, 123641>>, <<125264, 125273>>, <<130032, 130041>> >>

\* The characters c with c.isspace(), as ranges <<first, last>>.
SpaceRanges ==
    << <<9, 13>>, <<28, 32>>, <<133, 133>>, <<160, 160>>, <<5760, 5760>>,
       <<8192, 8202>>, <<8232, 8233>>, <<8239, 8239>>, <<8287, 8287>>,
       <<12288, 12288>> >>

\* The characters whose NFKC normal form holds one of "/?#@:", as ranges
\* <<first, last>>.
SlashLike ==
    << <<8263, 8265>>, <<8448, 8449>>, <<8453, 8454>>, <<10868, 10868>>,
       <<65043, 65043>>, <<65046, 65046>>, <<65109, 65110>>,
       <<65119, 65119>>, <<65131, 65131>>, <<65283, 65283>>,
       <<65295, 65295>>, <<65306, 65306>>, <<65311, 65312>> >>

\* c.lower() of one character that is not the capital sigma: a str of one
\* character, of two for U+0130.
LowerChar(c) ==
    IF c < 128 THEN (IF c \in 65..90 THEN <<c + 32>> ELSE <<c>>)
    ELSE IF c = 304 THEN <<105, 775>>
    ELSE (CHOOSE only \in {(IF runs = {} THEN <<c>>
              ELSE <<c + LowerRuns[CHOOSE r \in runs : TRUE][4]>>)
              : runs \in {{r \in 1..Len(LowerRuns) :
                    /\ LowerRuns[r][1] <= c
                    /\ c <= LowerRuns[r][2]
                    /\ (c - LowerRuns[r][1]) % LowerRuns[r][3] = 0}}} : TRUE)

\* The capital sigma at place i of s is a final one: the nearest character
\* before it that is not Case_Ignorable is cased, and the nearest one after
\* it is missing or not cased.
FinalSigma(s, i) ==
    LET before == {j \in 1..(i - 1) : ~InRanges(s[j], CaseIgnorable)}
        after == {j \in (i + 1)..Len(s) : ~InRanges(s[j], CaseIgnorable)}
    IN  /\ before # {}
        /\ InRanges(s[CHOOSE j \in before : \A k \in before : k <= j], Cased)
        /\ \/ after = {}
           \/ ~InRanges(s[CHOOSE j \in after : \A k \in after : j <= k], Cased)

RECURSIVE LowerRange(_, _, _)
\* What the characters lo..hi of s give in s.lower().
LowerRange(s, lo, hi) ==
    IF lo > hi THEN <<>>
    ELSE IF lo = hi
         THEN IF s[lo] = 931
              THEN (IF FinalSigma(s, lo) THEN <<962>> ELSE <<963>>)
              ELSE LowerChar(s[lo])
    ELSE LET mid == (lo + hi) \div 2
         IN  LowerRange(s, lo, mid) \o LowerRange(s, mid + 1, hi)

\* str.lower()
Lower(s) == LowerRange(s, 1, Len(s))

\* str.startswith(prefix), bytes.startswith(prefix)
StartsWith(s, prefix) ==
    /\ Len(prefix) <= Len(s)
    /\ SubSeq(s, 1, Len(prefix)) = prefix

\* str.endswith(suffix)
EndsWith(s, suffix) ==
    /\ Len(suffix) <= Len(s)
    /\ SubSeq(s, Len(s) - Len(suffix) + 1, Len(s)) = suffix

\* 1-based position of the first occurrence of sub in s, 0 when absent
\* (str.find(sub) + 1).
Find(s, sub) ==
    (CHOOSE only \in {(IF hits = {} THEN 0
        ELSE CHOOSE i \in hits : \A j \in hits : i <= j)
        : hits \in {{i \in 1..(Len(s) - Len(sub) + 1) :
               SubSeq(s, i, i + Len(sub) - 1) = sub}}} : TRUE)

\* sub in s
Contains(s, sub) == Find(s, sub) # 0

\* The value of the decimal digit c, -1 for a character that is none.
DecimalValue(c) ==
    IF c < 128 THEN (IF c \in 48..57 THEN c - 48 ELSE -1)
    ELSE (CHOOSE only \in {(IF runs = {} THEN -1
              ELSE (c - DecimalRanges[CHOOSE r \in runs : TRUE][1]) % 10)
              : runs \in {{r \in 1..Len(DecimalRanges) :
                    /\ DecimalRanges[r][1] <= c
                    /\ c <= DecimalRanges[r][2]}}} : TRUE)

\* \d of re, and the digits that int() reads
IsDigit(c) == DecimalValue(c) >= 0

\* [A-Za-z0-9]
IsAlnum(c) == c \in (48..57) \cup (65..90) \cup (97..122)

\* str.isdigit()
IsDigits(s) ==
    /\ s # <<>>
    /\ \A i \in 1..Len(s) :
           IF s[i] < 128 THEN s[i] \in 48..57 ELSE InRanges(s[i], DigitRanges)

\* The whitespace that int() removes around its argument: the ASCII
\* whitespace of C and the Unicode whitespace outside ASCII.
IsIntSpace(c) ==
    IF c < 128 THEN c \in (9..13) \cup {32} ELSE InRanges(c, SpaceRanges)

\* s without the whitespace that int() removes at both ends.
IntStrip(s) ==
    (CHOOSE only \in {(IF keep = {} THEN <<>>
        ELSE SubSeq(s, CHOOSE i \in keep : \A j \in keep : i <= j,
                       CHOOSE i \in keep : \A j \in keep : j <= i))
        : keep \in {{i \in 1..Len(s) : ~IsIntSpace(s[i])}}} : TRUE)

\* The digits of a decimal literal: decimal digits, with single underscores
\* between digits only.
IsIntDigits(d) ==
    /\ d # <<>>
    /\ \A i \in 1..Len(d) :
           \/ IsDigit(d[i])
           \/ /\ d[i] = Ord("_")
              /\ 1 < i /\ i < Len(d)
              /\ IsDigit(d[i - 1]) /\ IsDigit(d[i + 1])

\* s without its sign
Unsigned(s) ==
    IF s # <<>> /\ s[1] \in {Ord("+"), Ord("-")} THEN SubSeq(s, 2, Len(s))
    ELSE s

\* Whether int(s) returns: s is, inside whitespace, an optional sign and
\* the digits of a decimal literal.  Otherwise int(s) raises ValueError.
IsInt(s) == (CHOOSE only \in {(IsIntDigits(d))
                : d \in {Unsigned(IntStrip(s))}} : TRUE)

RECURSIVE DigitsToInt(_)
\* The value of a string of decimal digits and underscores
DigitsToInt(d) ==
    (CHOOSE only \in {(IF t = <<>> THEN 0
        ELSE IF t[Len(t)] = Ord("_")
             THEN DigitsToInt(SubSeq(t, 1, Len(t) - 1))
        ELSE 10 * DigitsToInt(SubSeq(t, 1, Len(t) - 1))
               + DecimalValue(t[Len(t)]))
        : t \in {d}} : TRUE)

\* int(s), for a string s on which int(s) returns
StrToInt(s) ==
    (CHOOSE only \in {(IF t # <<>> /\ t[1] = Ord("-")
                       THEN 0 - DigitsToInt(Unsigned(t))
        ELSE DigitsToInt(Unsigned(t)))
        : t \in {IntStrip(s)}} : TRUE)

RECURSIVE IntToStr(_)
\* str(n) of a natural number
IntToStr(n) ==
    IF n < 10 THEN <<48 + n>>
    ELSE IntToStr(n \div 10) \o <<48 + (n % 10)>>

\* The whitespace that str.strip() removes: the characters of str.isspace().
IsStrSpace(c) ==
    IF c < 128 THEN c \in (9..13) \cup (28..32) ELSE InRanges(c, SpaceRanges)

\* bytes.lstrip(): the leading ASCII whitespace, which is the space, \t,
\* \n, \r, \f and the vertical tab, is removed.
LStrip(s) ==
    (CHOOSE only \in {(IF keep = {} THEN <<>>
        ELSE SubSeq(s, CHOOSE i \in keep : \A j \in keep : i <= j, Len(s)))
        : keep \in {{i \in 1..Len(s) : s[i] \notin (9..13) \cup {32}}}} : TRUE)

\* str.strip("_")
StripUnderscores(s) ==
    (CHOOSE only \in {(IF keep = {} THEN <<>>
        ELSE SubSeq(s, CHOOSE i \in keep : \A j \in keep : i <= j,
                       CHOOSE i \in keep : \A j \in keep : j <= i))
        : keep \in {{i \in 1..Len(s) : ~(s[i] = Ord("_"))}}} : TRUE)

RECURSIVE SubNonAlnumRange(_, _, _)
\* The characters lo..hi of s after re.sub(r"[^A-Za-z0-9]+", "_", s): a
\* character that is not alphanumeric gives "_" when it starts a run and
\* nothing when it continues one.
SubNonAlnumRange(s, lo, hi) ==
    IF lo > hi THEN <<>>
    ELSE IF lo = hi
         THEN IF IsAlnum(s[lo]) THEN <<s[lo]>>
              ELSE IF lo > 1 /\ ~IsAlnum(s[lo - 1]) THEN <<>>
              ELSE S("_")
    ELSE LET mid == (lo + hi) \div 2
         IN  SubNonAlnumRange(s, lo, mid) \o SubNonAlnumRange(s, mid + 1, hi)

\* re.sub(r"[^A-Za-z0-9]+", "_", s)
SubNonAlnum(s) == SubNonAlnumRange(s, 1, Len(s))

RECURSIVE Join(_, _)
\* sep.join(parts)
Join(sep, parts) ==
    IF Len(parts) = 0 THEN <<>>
    ELSE IF Len(parts) = 1 THEN parts[1]
         ELSE parts[1] \o sep \o Join(sep, Tail(parts))

\* a < b in the order of Python str (code point order): decided at the
\* first position where they differ, or by the
\* length when one is a prefix of the other.
StrLess(a, b) ==
    (CHOOSE only \in {(LET shorter == IF Len(s[1]) < Len(s[2]) THEN Len(s[1])
                                     ELSE Len(s[2])
            differ == {i \in 1..shorter : s[1][i] # s[2][i]}
        IN  IF differ = {} THEN Len(s[1]) < Len(s[2])
            ELSE LET i == CHOOSE d \in differ : \A e \in differ : d <= e
                 IN  s[1][i] < s[2][i])
        : s \in {<<a, b>>}} : TRUE)

\* ------------------------------------------------------------------------
\* Configuration (module constants of download_bac_exams.py)
\* ------------------------------------------------------------------------

\* dict.get(key, default)
Get(dict, key, default) == IF key \in DOMAIN dict THEN dict[key] ELSE default

\* folder / filename, for a filename that does not start with "/"
PathJoin(folder, filename) == folder \o S("/") \o filename

\* Path(__file__).resolve().parent: the directory that holds
\* download_bac_exams.py.
ROOT_DIR == S("/root/workspace/src")

\* The keys of SUBJECT_SOURCES, in dict order.
SubjectCodes == <<S("Math"), S("PC"), S("SVT")>>

SUBJECT_SOURCES ==
    (S("Math") :>
        [label |-> S("Mathématiques"),
         folder |-> PathJoin(ROOT_DIR, S("Math")),
         pages |->
           <<S("https://telmidtice.com/2bac-pc-mathematiques-examens-nationaux/"),
             S("https://www.taalime.ma/examen-national-math-bac-sciences-mathematique-avec-correction-biof-pdf-maroc/")>>])
    @@ (S("PC") :>
        [label |-> S("Sciences Physiques (PC)"),
         folder |-> PathJoin(ROOT_DIR, S("PC")),
         pages |->
           <<S("https://telmidtice.com/2bac-pc-pc-examens-nationaux/"),
             S("https://www.taalime.ma/examen-national-physique-chimie-bac-sciences-physique-svt-avec-correction-biof-pdf-maroc/")>>])
    @@ (S("SVT") :>
        [label |-> S("Sciences de la Vie et de la Terre (SVT)"),
         folder |-> PathJoin(ROOT_DIR, S("SVT")),
         pages |->
           <<S("https://telmidtice.com/2bac-pc-svt-examens-nationaux/"),
             S("https://www.taalime.ma/examen-national-svt-bac-sciences-de-la-vie-et-de-la-terre-avec-correction-biof-pdf-maroc/")>>])

FirstYear == 2008

\* YEARS, cut to its first NumYears elements, in list order.
YEARS == [i \in 1..NumYears |-> FirstYear + i - 1]

TARGET_SESSIONS == <<S("Normale"), S("Rattrapage")>>

TARGET_ASSET_TYPES == <<S("MainExam"), S("Correction")>>

SESSION_LABELS ==
    (S("Normale") :> S("Normale")) @@ (S("Rattrapage") :> S("Rattrapage"))

TYPE_LABELS ==
    (S("MainExam") :> S("Sujet")) @@ (S("Correction") :> S("Corrigé"))

SESSION_ORDER == (S("Normale") :> 0) @@ (S("Rattrapage") :> 1)

TYPE_ORDER == (S("MainExam") :> 0) @@ (S("Correction") :> 1)

PREFERRED_DOMAINS ==
    <<S("telmidtice.com"), S("men.gov.ma"), S("drive.google.com"),
      S("docs.google.com")>>

\* <<8211>> is the dash U+2013 of the title templates.
TELMID_PATTERNS ==
    (S("Math") :>
        [base_url |->
           S("https://telmidtice.com/assets/2bac-pc/maths-fr/Examens Nationaux/"),
         file_template |->
           S("TelmidTice - Examen National Maths Sciences et Technologies {year} ")
             \o S("{session_label} - {type_label}.pdf"),
         title_template |->
           S("TelmidTICE Mathématiques {year} {session_label} ") \o <<8211>>
             \o S(" {type_label}")])
    @@ (S("PC") :>
        [base_url |->
           S("https://telmidtice.com/assets/2bac-pc/pc-fr/Examens Nationaux/"),
         file_template |->
           S("TelmidTice - Examen National Physique-Chimie SPC {year} ")
             \o S("{session_label} - {type_label}.pdf"),
         title_template |->
           S("TelmidTICE Physique-Chimie {year} {session_label} ") \o <<8211>>
             \o S(" {type_label}")])
    @@ (S("SVT") :>
        [base_url |->
           S("https://telmidtice.com/assets/2bac-pc/svt-fr/Examens Nationaux/"),
         file_template |->
           S("TelmidTice - Examen National SVT Sciences Physiques {year} ")
             \o S("{session_label} - {type_label}.pdf"),
         title_template |->
           S("TelmidTICE SVT {year} {session_label} ") \o <<8211>>
             \o S(" {type_label}")])

\* SESSION_KEYWORDS, in tuple order
SESSION_KEYWORDS ==
    << [keywords |-> {S("normale"), S("normal"), S("principale"), S("main"),
                      S("regular")},
        label |-> S("Normale")],
       [keywords |-> {S("rattrap"), S("retake"), S("extraordinaire")},
        label |-> S("Rattrapage")] >>

\* ------------------------------------------------------------------------
\* Classification helpers
\* ------------------------------------------------------------------------

\* EXAM_YEAR_RE.search(text): leftmost "20dd" or "19dd", d a decimal digit.
identify_year(text) ==
    LET hits == {i \in 1..(Len(text) - 3) :
                     /\ SubSeq(text, i, i + 1) \in {S("20"), S("19")}
                     /\ IsDigit(text[i + 2])
                     /\ IsDigit(text[i + 3])}
    IN  IF hits = {} THEN None
        ELSE LET i == CHOOSE h \in hits : \A j \in hits : h <= j
             IN  SubSeq(text, i, i + 3)

identify_session(text) ==
    (CHOOSE only \in {(LET match(n) == \E kw \in SESSION_KEYWORDS[n].keywords :
                                   Contains(lowered, kw)
        IN  IF match(1) THEN SESSION_KEYWORDS[1].label
            ELSE IF match(2) THEN SESSION_KEYWORDS[2].label
            ELSE None)
        : lowered \in {Lower(text)}} : TRUE)

identify_asset_type(text) ==
    (CHOOSE only \in {(IF Contains(lowered, S("corrig")) THEN S("Correction")
        ELSE IF \/ Contains(lowered, S("sujet"))
                \/ Contains(lowered, S("examen"))
             THEN S("MainExam")
             ELSE None)
        : lowered \in {Lower(text)}} : TRUE)

RECURSIVE SafeParts(_)
\* The loop of sanitize_filename: the cleaned, non-empty parts.
SafeParts(parts) ==
    IF Len(parts) = 0 THEN <<>>
    ELSE LET clean == StripUnderscores(SubNonAlnum(parts[1]))
         IN  (IF clean # <<>> THEN <<clean>> ELSE <<>>) \o SafeParts(Tail(parts))

sanitize_filename(parts) ==
    LET safe_parts == SafeParts(parts)
        combined == IF Len(safe_parts) > 0 THEN Join(S("_"), safe_parts)
                    ELSE S("document")
    IN  combined \o S(".pdf")

\* The None that asset_key returns: the tuple of no Canonical Key.
NoKey == <<>>

\* An asset_key that files a candidate without a year under the year 0.
asset_key_any_year(asset) ==
    IF asset.session = None THEN NoKey
    ELSE IF asset.year # None /\ ~IsInt(asset.year) THEN NoKey
    ELSE IF ~(\E i \in 1..Len(TARGET_SESSIONS) :
                  TARGET_SESSIONS[i]
                      = Get(SESSION_LABELS, asset.session, asset.session))
         THEN NoKey
    ELSE IF ~(\E i \in 1..Len(TARGET_ASSET_TYPES) :
                  TARGET_ASSET_TYPES[i] = asset.asset_type) THEN NoKey
    ELSE <<asset.subject_code,
           IF asset.year = None THEN 0 ELSE StrToInt(asset.year),
           Get(SESSION_LABELS, asset.session, asset.session),
           asset.asset_type>>

\* asset_key(asset): the Canonical Key, or NoKey; int(asset.year) raises
\* ValueError on a year that is not a decimal literal, and the function
\* returns None then.
asset_key(asset) ==
    IF asset.year = None \/ asset.session = None THEN NoKey
    ELSE IF ~IsInt(asset.year) THEN NoKey
    ELSE IF ~(\E i \in 1..Len(TARGET_SESSIONS) :
                  TARGET_SESSIONS[i]
                      = Get(SESSION_LABELS, asset.session, asset.session))
         THEN NoKey
    ELSE IF ~(\E i \in 1..Len(TARGET_ASSET_TYPES) :
                  TARGET_ASSET_TYPES[i] = asset.asset_type) THEN NoKey
    ELSE <<asset.subject_code, StrToInt(asset.year),
           Get(SESSION_LABELS, asset.session, asset.session),
           asset.asset_type>>

\* ------------------------------------------------------------------------
\* URLs (urllib.parse of Python 3.11)
\* ------------------------------------------------------------------------

\* Position of the first character of s, from position from on, that is one
\* of the characters of stops; Len(s) + 1 when there is none.
FirstStop(s, from, stops) ==
    (CHOOSE only \in {(IF hits = {} THEN Len(s) + 1
        ELSE CHOOSE i \in hits : \A j \in hits : i <= j)
        : hits \in {{i \in from..Len(s) : s[i] \in stops}}} : TRUE)

\* 1-based position of the last occurrence of the character c in s, 0 when
\* absent (s.rfind(c) + 1).
LastIndexOf(c, s) ==
    LET hits == {i \in 1..Len(s) : s[i] = c}
    IN  IF hits = {} THEN 0
        ELSE CHOOSE i \in hits : \A j \in hits : j <= i

RECURSIVE Remove(_, _)
\* s.replace(c, "") for every character c of chars
Remove(s, chars) ==
    (CHOOSE only \in {(IF \A i \in 1..Len(t) : t[i] \notin chars THEN t
        ELSE IF Len(t) = 1 THEN <<>>
        ELSE LET half == Len(t) \div 2
             IN  Remove(SubSeq(t, 1, half), chars)
                   \o Remove(SubSeq(t, half + 1, Len(t)), chars))
        : t \in {s}} : TRUE)

RECURSIVE Split(_, _)
\* s.split(sep) for a separator of one character
Split(s, sep) ==
    LET i == FirstStop(s, 1, {sep})
    IN  IF i > Len(s) THEN <<s>>
        ELSE <<SubSeq(s, 1, i - 1)>> \o Split(SubSeq(s, i + 1, Len(s)), sep)

\* s.replace("+", " ")
PlusToSpace(s) ==
    [i \in 1..Len(s) |-> IF s[i] = Ord("+") THEN Ord(" ") ELSE s[i]]

\* The value of a hexadecimal digit of either case, -1 for another character.
HexValue(c) ==
    IF c \in 48..57 THEN c - 48
    ELSE IF c \in 65..70 THEN c - 55
    ELSE IF c \in 97..102 THEN c - 87
    ELSE -1

\* urllib.parse.uses_relative, uses_netloc and uses_params
uses_relative ==
    {<<>>, S("ftp"), S("http"), S("gopher"), S("nntp"), S("imap"),
     S("wais"), S("file"), S("https"), S("shttp"), S("mms"), S("prospero"),
     S("rtsp"), S("rtsps"), S("rtspu"), S("sftp"), S("svn"), S("svn+ssh"),
     S("ws"), S("wss")}

uses_netloc ==
    {<<>>, S("ftp"), S("http"), S("gopher"), S("nntp"), S("telnet"),
     S("imap"), S("wais"), S("file"), S("mms"), S("https"), S("shttp"),
     S("snews"), S("prospero"), S("rtsp"), S("rtsps"), S("rtspu"),
     S("rsync"), S("svn"), S("svn+ssh"), S("sftp"), S("nfs"), S("git"),
     S("git+ssh"), S("ws"), S("wss")}

uses_params ==
    {<<>>, S("ftp"), S("hdl"), S("prospero"), S("http"), S("imap"),
     S("https"), S("shttp"), S("rtsp"), S("rtsps"), S("rtspu"), S("sip"),
     S("sips"), S("mms"), S("sftp"), S("tel")}

\* s.lstrip(_WHATWG_C0_CONTROL_OR_SPACE): the leading characters up to
\* U+0020 are removed.
LStripC0(s) ==
    (CHOOSE only \in {(IF keep = {} THEN <<>>
        ELSE SubSeq(s, CHOOSE i \in keep : \A j \in keep : i <= j, Len(s)))
        : keep \in {{i \in 1..Len(s) : s[i] > 32}}} : TRUE)

\* s.strip(_WHATWG_C0_CONTROL_OR_SPACE)
StripC0(s) ==
    (CHOOSE only \in {(IF keep = {} THEN <<>>
        ELSE SubSeq(s, CHOOSE i \in keep : \A j \in keep : i <= j,
                       CHOOSE i \in keep : \A j \in keep : j <= i))
        : keep \in {{i \in 1..Len(s) : s[i] > 32}}} : TRUE)

\* ipaddress.IPv4Address(s) returns: four decimal octets of at most three
\* ASCII digits, without leading zeros, none above 255.
IsIPv4(s) ==
    /\ s # <<>>
    /\ LET octets == Split(s, Ord("."))
       IN  /\ Len(octets) = 4
           /\ \A k \in 1..4 :
                  /\ octets[k] # <<>>
                  /\ \A i \in 1..Len(octets[k]) : octets[k][i] \in 48..57
                  /\ Len(octets[k]) <= 3
                  /\ octets[k] = S("0") \/ octets[k][1] # Ord("0")
                  /\ DigitsToInt(octets[k]) <= 255

\* IPv6Address._parse_hextet(h) returns
IsHextet(h) ==
    /\ h # <<>>
    /\ Len(h) <= 4
    /\ \A i \in 1..Len(h) : HexValue(h[i]) >= 0

\* IPv6Address._ip_int_from_string(ip_str) returns.  parts is ip_str.split(":")
\* with an IPv4 suffix replaced by its two hextets (written "0" here: only
\* their number and their being hextets matter); skips are the places of the
\* empty inner parts, hi and lo the numbers of parts before and after "::".
IsIPv6Parts(ip_str) ==
    /\ ip_str # <<>>
    /\ Len(Split(ip_str, Ord(":"))) >= 3
    /\ LET split == Split(ip_str, Ord(":"))
           suffix == split[Len(split)]
           parts == IF Contains(suffix, S("."))
                    THEN SubSeq(split, 1, Len(split) - 1) \o <<S("0"), S("0")>>
                    ELSE split
           n == Len(parts)
           skips == {i \in 2..(n - 1) : parts[i] = <<>>}
           skip_index == CHOOSE i \in skips : TRUE
           hi == IF parts[1] = <<>> THEN skip_index - 2 ELSE skip_index - 1
           lo == IF parts[n] = <<>> THEN n - skip_index - 1 ELSE n - skip_index
       IN  /\ Contains(suffix, S(".")) => IsIPv4(suffix)
           /\ n <= 9
           /\ Cardinality(skips) <= 1
           /\ IF skips # {}
              THEN /\ parts[1] = <<>> => hi = 0
                   /\ parts[n] = <<>> => lo = 0
                   /\ 8 - (hi + lo) >= 1
                   /\ \A i \in 1..hi : IsHextet(parts[i])
                   /\ \A i \in (n - lo + 1)..n : IsHextet(parts[i])
              ELSE /\ n = 8
                   /\ \A i \in 1..n : IsHextet(parts[i])

\* ipaddress.IPv6Address(s) returns: no "/", an optional scope id after one
\* "%", and the parts of an IPv6 address before it.
IsIPv6(s) ==
    LET p == FirstStop(s, 1, {Ord("%")})
    IN  /\ ~Contains(s, S("/"))
        /\ IF p > Len(s) THEN IsIPv6Parts(s)
           ELSE /\ p < Len(s)
                /\ ~Contains(SubSeq(s, p + 1, Len(s)), S("%"))
                /\ IsIPv6Parts(SubSeq(s, 1, p - 1))

\* re.match(r"\Av[a-fA-F0-9]+\..+\Z", hostname) matches: k is the place of
\* the first character after "v" that is not a hexadecimal digit.
IsIPvFuture(hostname) ==
    LET rest == {i \in 2..Len(hostname) : HexValue(hostname[i]) < 0}
        k == IF rest = {} THEN Len(hostname) + 1
             ELSE CHOOSE i \in rest : \A j \in rest : i <= j
    IN  /\ k >= 3
        /\ k < Len(hostname)
        /\ hostname[k] = Ord(".")
        /\ Ord("\n") \notin {hostname[i] : i \in k..Len(hostname)}

\* _check_bracketed_host(hostname) raises ValueError: the host is neither an
\* IPvFuture nor an IPv6 address (an IPv4 address in brackets raises too).
BracketedHostRaises(hostname) ==
    IF StartsWith(hostname, S("v")) THEN ~IsIPvFuture(hostname)
    ELSE ~IsIPv6(hostname)

\* netloc.partition("[")[2].partition("]")[0]
BracketedHost(netloc) ==
    LET after == SubSeq(netloc, FirstStop(netloc, 1, {Ord("[")}) + 1,
                        Len(netloc))
    IN  SubSeq(after, 1, FirstStop(after, 1, {Ord("]")}) - 1)

\* _checknetloc(netloc) raises ValueError: the netloc holds a character
\* outside ASCII that NFKC brings to text with one of "/?#@:" in it.
checknetloc(netloc) ==
    \E i \in 1..Len(netloc) :
        netloc[i] >= 128 /\ InRanges(netloc[i], SlashLike)

\* urlsplit raises ValueError on this netloc: one bracket without the other,
\* an invalid bracketed host, or a character that _checknetloc rejects.
NetlocRaises(netloc) ==
    IF Contains(netloc, S("[")) # Contains(netloc, S("]")) THEN TRUE
    ELSE IF /\ Contains(netloc, S("["))
            /\ BracketedHostRaises(BracketedHost(netloc)) THEN TRUE
    ELSE checknetloc(netloc)

\* The end of urlsplit: the fragment after the first "#" of url, the query
\* after the first "?" before it, the path before them.
SplitPath(scheme, netloc, url) ==
    LET h == FirstStop(url, 1, {Ord("#")})
        q == FirstStop(url, 1, {Ord("?"), Ord("#")})
    IN  [raises |-> NetlocRaises(netloc),
         scheme |-> scheme,
         netloc |-> netloc,
         path |-> SubSeq(url, 1, q - 1),
         query |-> SubSeq(url, q + 1, h - 1),
         fragment |-> SubSeq(url, h + 1, Len(url))]

\* The middle of urlsplit: netloc, url = _splitnetloc(url, 2) when url starts
\* with "//"; cut is <<netloc, url>> for the rest of urlsplit.
SplitNetloc(scheme, url) ==
    (CHOOSE only \in {(SplitPath(scheme, cut[1], cut[2]))
        : cut \in {IF StartsWith(url, S("//"))
                   THEN (CHOOSE only \in {(<<SubSeq(url, 3, delim - 1),
                                             SubSeq(url, delim, Len(url))>>)
                            : delim \in {FirstStop(url, 3,
                                  {Ord("/"), Ord("?"), Ord("#")})}} : TRUE)
                   ELSE <<<<>>, url>>}} : TRUE)

\* urlsplit(url, scheme).  The leading control characters and spaces of url
\* are stripped, those at both ends of scheme too, and the tabs and line
\* ends of both removed; the text before the first ":" is the scheme when
\* it starts with a letter and holds scheme characters only: cut is
\* <<scheme, url>> after that step.
urlsplit(url, scheme) ==
    (CHOOSE only \in {((CHOOSE only \in {(SplitNetloc(cut[1], cut[2]))
            : cut \in {(CHOOSE only \in {(IF /\ i > 1
                   /\ u[1] \in (65..90) \cup (97..122)
                   /\ \A j \in 1..(i - 1) :
                          IsAlnum(u[j])
                            \/ u[j] \in {Ord("+"), Ord("-"), Ord(".")}
                THEN <<Lower(SubSeq(u, 1, i - 1)), SubSeq(u, i + 1, Len(u))>>
                ELSE <<Remove(StripC0(scheme),
                              {Ord("\t"), Ord("\r"), Ord("\n")}), u>>)
                : i \in {Find(u, S(":"))}} : TRUE)}} : TRUE))
        : u \in {Remove(LStripC0(url),
                        {Ord("\t"), Ord("\r"), Ord("\n")})}} : TRUE)

\* Where _splitparams(path) cuts path: at the first ";" from the last "/"
\* on; Len(path) + 1 when there is none.
ParamsAt(path) ==
    IF Contains(path, S("/"))
    THEN FirstStop(path, LastIndexOf(Ord("/"), path), {Ord(";")})
    ELSE FirstStop(path, 1, {Ord(";")})

\* urlparse(url, scheme): [raises |-> TRUE, ...] when it raises ValueError.
urlparse(url, scheme) ==
    (CHOOSE only \in {((CHOOSE only \in {([raises |-> split.raises,
             scheme |-> split.scheme,
             netloc |-> split.netloc,
             path |-> SubSeq(split.path, 1, p - 1),
             params |-> SubSeq(split.path, p + 1, Len(split.path)),
             query |-> split.query,
             fragment |-> split.fragment])
            : p \in {IF split.scheme \in uses_params THEN ParamsAt(split.path)
                   ELSE Len(split.path) + 1}} : TRUE))
        : split \in {urlsplit(url, scheme)}} : TRUE)

\* urlunsplit((scheme, netloc, url, query, fragment))
urlunsplit(scheme, netloc, url, query, fragment) ==
    (IF scheme # <<>> THEN scheme \o S(":") ELSE <<>>)
      \o (IF \/ netloc # <<>>
             \/ /\ scheme # <<>>
                /\ scheme \in uses_netloc
                /\ ~StartsWith(url, S("//"))
          THEN S("//") \o netloc
                 \o (IF url # <<>> /\ ~StartsWith(url, S("/")) THEN S("/")
                     ELSE <<>>)
          ELSE <<>>)
      \o url
      \o (IF query # <<>> THEN S("?") \o query ELSE <<>>)
      \o (IF fragment # <<>> THEN S("#") \o fragment ELSE <<>>)

\* urlunparse(parts), parts being a record of urlparse
urlunparse(parts) ==
    urlunsplit(parts.scheme, parts.netloc,
               IF parts.params # <<>>
               THEN parts.path \o S(";") \o parts.params
               ELSE parts.path,
               parts.query, parts.fragment)

\* urlparse(url).netloc, for a url on which urlparse returns
Netloc(url) == urlparse(url, <<>>).netloc

RECURSIVE ResolveDots(_, _)
\* The loop of urljoin over the segments: ".." removes the last resolved
\* segment if there is one, "." is dropped, any other segment is appended.
ResolveDots(segments, resolved_path) ==
    IF Len(segments) = 0 THEN resolved_path
    ELSE ResolveDots(Tail(segments),
             IF Head(segments) = S("..")
             THEN SubSeq(resolved_path, 1, Len(resolved_path) - 1)
             ELSE IF Head(segments) = S(".") THEN resolved_path
             ELSE Append(resolved_path, Head(segments)))

\* segments[1:-1] = filter(None, segments[1:-1])
FilterInner(segments) ==
    IF Len(segments) < 2 THEN segments
    ELSE <<Head(segments)>>
           \o SelectSeq(SubSeq(segments, 2, Len(segments) - 1),
                        LAMBDA seg : seg # <<>>)
           \o <<segments[Len(segments)]>>

\* The path that urljoin resolves from the path of the base and a path that
\* is not empty.
ResolvedPath(bpath, path) ==
    LET split == Split(bpath, Ord("/"))
        base_parts == IF split[Len(split)] # <<>>
                      THEN SubSeq(split, 1, Len(split) - 1) ELSE split
        segments == IF StartsWith(path, S("/")) THEN Split(path, Ord("/"))
                    ELSE FilterInner(base_parts \o Split(path, Ord("/")))
        resolved_path == ResolveDots(segments, <<>>)
        joined == Join(S("/"),
                       IF segments[Len(segments)] \in {S("."), S("..")}
                       THEN Append(resolved_path, <<>>)
                       ELSE resolved_path)
    IN  IF joined = <<>> THEN S("/") ELSE joined

\* urljoin after the two urlparse calls: b is the parsed base, u the parsed
\* url.
JoinParsed(b, u, url) ==
    IF u.scheme # b.scheme \/ u.scheme \notin uses_relative THEN url
    ELSE IF u.scheme \in uses_netloc /\ u.netloc # <<>> THEN urlunparse(u)
    ELSE (CHOOSE only \in {(IF u.path = <<>> /\ u.params = <<>>
        THEN urlunparse([u EXCEPT !.netloc = netloc,
                                  !.path = b.path,
                                  !.params = b.params,
                                  !.query = IF u.query = <<>> THEN b.query
                                            ELSE u.query])
        ELSE urlunparse([u EXCEPT !.netloc = netloc,
                                  !.path = ResolvedPath(b.path, u.path)]))
             : netloc \in {IF u.scheme \in uses_netloc THEN b.netloc
                           ELSE u.netloc}} : TRUE)

\* urljoin(base_url, href); ValueError when urlparse raises it on one of them.
urljoin(base_url, href) ==
    IF base_url = <<>> THEN href
    ELSE IF href = <<>> THEN base_url
    ELSE (CHOOSE only \in {(IF b.raises THEN ValueError
             ELSE (CHOOSE only \in {(IF u.raises THEN ValueError
                      ELSE JoinParsed(b, u, href))
                      : u \in {urlparse(href, b.scheme)}} : TRUE))
             : b \in {urlparse(base_url, <<>>)}} : TRUE)

\* host_rank of prefer_asset
host_rank(host) ==
    LET hits == {idx \in 1..Len(PREFERRED_DOMAINS) :
                     EndsWith(host, PREFERRED_DOMAINS[idx])}
    IN  IF hits = {} THEN Len(PREFERRED_DOMAINS)
        ELSE (CHOOSE idx \in hits : \A j \in hits : idx <= j) - 1

\* prefer_asset(candidate, current): the candidate replaces the occupant
\* only when its host ranks strictly better; parsed[1].netloc.lower() is
\* candidate_host and parsed[2].netloc.lower() is current_host.  ValueError
\* when urlparse raises on one of the two URLs.
prefer_asset(candidate, current) ==
    (CHOOSE only \in {(IF parsed[1].raises \/ parsed[2].raises THEN ValueError
                       ELSE host_rank(Lower(parsed[1].netloc))
                              < host_rank(Lower(parsed[2].netloc)))
        : parsed \in {<<urlparse(candidate.pdf_url, <<>>),
                        urlparse(current.pdf_url, <<>>)>>}} : TRUE)

\* The bytes of the UTF-8 form of the character c (not a surrogate).
Utf8Char(c) ==
    IF c < 128 THEN <<c>>
    ELSE IF c < 2048 THEN <<192 + (c \div 64), 128 + (c % 64)>>
    ELSE IF c < 65536
         THEN <<224 + (c \div 4096), 128 + ((c \div 64) % 64), 128 + (c % 64)>>
    ELSE <<240 + (c \div 262144), 128 + ((c \div 4096) % 64),
           128 + ((c \div 64) % 64), 128 + (c % 64)>>

RECURSIVE Utf8Range(_, _, _)
\* The bytes that the characters lo..hi of s give in s.encode("utf-8")
Utf8Range(s, lo, hi) ==
    IF lo > hi THEN <<>>
    ELSE IF lo = hi THEN Utf8Char(s[lo])
    ELSE (CHOOSE only \in {(Utf8Range(s, lo, mid) \o Utf8Range(s, mid + 1, hi))
             : mid \in {(lo + hi) \div 2}} : TRUE)

\* s.encode("utf-8"); ValueError when it raises: UnicodeEncodeError, a
\* ValueError, on a str that holds a surrogate.
Utf8(s) ==
    (CHOOSE only \in {(IF \E i \in 1..Len(t) : t[i] \in 55296..57343
                       THEN ValueError
                       ELSE Utf8Range(t, 1, Len(t)))
        : t \in {s}} : TRUE)

RECURSIVE QuoteBytes(_, _, _)
\* What the bytes lo..hi of bs give in quote: the letters, the digits and
\* "_.-~/" are kept, any other byte gives its "%XX", XX being its two
\* hexadecimal digits in upper case.
QuoteBytes(bs, lo, hi) ==
    IF lo > hi THEN <<>>
    ELSE IF lo = hi
         THEN IF \/ IsAlnum(bs[lo])
                 \/ bs[lo] \in {Ord("_"), Ord("."), Ord("-"), Ord("~"), Ord("/")}
              THEN <<bs[lo]>>
              ELSE LET HexUpper(v) == IF v < 10 THEN 48 + v ELSE 55 + v
                   IN  <<Ord("%"), HexUpper(bs[lo] \div 16),
                         HexUpper(bs[lo] % 16)>>
    ELSE LET mid == (lo + hi) \div 2
         IN  QuoteBytes(bs, lo, mid) \o QuoteBytes(bs, mid + 1, hi)

\* urllib.parse.quote(s): the bytes of the UTF-8 form of s, quoted;
\* ValueError when the encoding raises
quote(s) ==
    (CHOOSE only \in {(IF bs = ValueError THEN ValueError
                       ELSE QuoteBytes(bs, 1, Len(bs)))
        : bs \in {Utf8(s)}} : TRUE)

\* An escape %XX starts at position i of s.  The two characters after "%"
\* are hexadecimal digits, so no escape starts inside another.
EscapeAt(s, i) ==
    /\ i >= 1
    /\ i + 2 <= Len(s)
    /\ s[i] = Ord("%")
    /\ HexValue(s[i + 1]) >= 0
    /\ HexValue(s[i + 2]) >= 0

\* The byte of the escape that starts at position i of s, -1 when none
\* starts there.
ByteAt(s, i) ==
    IF EscapeAt(s, i)
    THEN 16 * HexValue(s[i + 1]) + HexValue(s[i + 2])
    ELSE -1

\* The number of continuation bytes that the UTF-8 lead byte b announces, 0
\* for a byte that is no lead byte.
Continuations(b) ==
    IF b \in 194..223 THEN 1
    ELSE IF b \in 224..239 THEN 2
    ELSE IF b \in 240..244 THEN 3
    ELSE 0

\* The byte c may be the k-th byte after the lead byte b.
ContinuationOk(b, k, c) ==
    /\ k <= Continuations(b)
    /\ IF k > 1 THEN c \in 128..191
       ELSE IF b = 224 THEN c \in 160..191
       ELSE IF b = 237 THEN c \in 128..159
       ELSE IF b = 240 THEN c \in 144..191
       ELSE IF b = 244 THEN c \in 128..143
       ELSE c \in 128..191

\* The number of bytes after the lead byte at position i of s that the
\* UTF-8 decoder takes with it: the escapes that follow it directly and are
\* the continuation bytes it may have.
Taken(s, i) ==
    LET b == ByteAt(s, i)
    IN  IF ~ContinuationOk(b, 1, ByteAt(s, i + 3)) THEN 0
        ELSE IF ~ContinuationOk(b, 2, ByteAt(s, i + 6)) THEN 1
        ELSE IF ~ContinuationOk(b, 3, ByteAt(s, i + 9)) THEN 2
        ELSE 3

\* The character that the lead byte at position i of s encodes with the n
\* continuation bytes after it.
Decoded(s, i, n) ==
    IF n = 1 THEN (ByteAt(s, i) - 192) * 64 + (ByteAt(s, i + 3) - 128)
    ELSE IF n = 2
         THEN (ByteAt(s, i) - 224) * 4096 + (ByteAt(s, i + 3) - 128) * 64
                + (ByteAt(s, i + 6) - 128)
    ELSE (ByteAt(s, i) - 240) * 262144 + (ByteAt(s, i + 3) - 128) * 4096
           + (ByteAt(s, i + 6) - 128) * 64 + (ByteAt(s, i + 9) - 128)

\* What position i of s gives in unquote(s).  A character outside an escape
\* is kept and the two digits of an escape give nothing.  The escapes that
\* follow one another are the bytes of UTF-8 text, decoded with
\* errors="replace": an ASCII byte gives its character; a lead byte with all
\* its continuation bytes gives the character they encode; a lead byte
\* short of them gives U+FFFD for itself and the bytes it took; a
\* continuation byte gives nothing when a lead byte took it and U+FFFD
\* otherwise; any other byte gives U+FFFD.
UnquoteAt(s, i) ==
    IF ~EscapeAt(s, i)
    THEN IF EscapeAt(s, i - 1) \/ EscapeAt(s, i - 2) THEN <<>> ELSE <<s[i]>>
    ELSE (CHOOSE only \in {(IF b < 128 THEN <<b>>
        ELSE IF b \in 128..191
             THEN IF \E d \in 1..3 :
                         /\ Continuations(ByteAt(s, i - 3 * d)) >= d
                         /\ Taken(s, i - 3 * d) >= d
                  THEN <<>> ELSE <<65533>>
        ELSE IF Continuations(b) = 0 THEN <<65533>>
        ELSE IF Taken(s, i) < Continuations(b) THEN <<65533>>
        ELSE <<Decoded(s, i, Continuations(b))>>)
             : b \in {ByteAt(s, i)}} : TRUE)

RECURSIVE UnquoteRange(_, _, _)
\* What the characters lo..hi of s give in unquote(s).
UnquoteRange(s, lo, hi) ==
    IF lo > hi THEN <<>>
    ELSE IF lo = hi THEN UnquoteAt(s, lo)
    ELSE LET mid == (lo + hi) \div 2
         IN  UnquoteRange(s, lo, mid) \o UnquoteRange(s, mid + 1, hi)

\* urllib.parse.unquote(s)
unquote(s) ==
    IF ~Contains(s, S("%")) THEN s ELSE UnquoteRange(s, 1, Len(s))

\* parse_qs(query).get("url"): the values of the fields named url, by the
\* place of the field in the query.  The fields are separated by "&"; a
\* field without "=" or with nothing after its first "=" is dropped; "+"
\* and %XX are decoded in the name and in the value.
QueryUrlValues(query) ==
    LET fields == IF query = <<>> THEN <<>> ELSE Split(query, Ord("&"))
        eq(i) == FirstStop(fields[i], 1, {Ord("=")})
        idxs == {i \in 1..Len(fields) :
                     /\ eq(i) < Len(fields[i])
                     /\ unquote(PlusToSpace(SubSeq(fields[i], 1, eq(i) - 1)))
                            = S("url")}
    IN  [i \in idxs |->
             unquote(PlusToSpace(SubSeq(fields[i], eq(i) + 1,
                                        Len(fields[i]))))]

\* normalize_pdf_url(href, base_url); ValueError when urljoin or urlparse
\* raises it.
normalize_pdf_url(href, base_url) ==
    (CHOOSE only \in {(IF absolute = ValueError THEN ValueError
        ELSE (CHOOSE only \in {(IF parsed.raises THEN ValueError
            ELSE LET target == QueryUrlValues(parsed.query)
                     keep == {i \in 1..Len(parsed.path) :
                                  parsed.path[i] # Ord("/")}
                     stripped ==
                         IF keep = {} THEN <<>>
                         ELSE SubSeq(parsed.path,
                                     CHOOSE i \in keep : \A j \in keep : i <= j,
                                     CHOOSE i \in keep : \A j \in keep : j <= i)
                     parts == Split(stripped, Ord("/"))
                     ds == {i \in 1..Len(parts) : parts[i] = S("d")}
                     d == CHOOSE i \in ds : \A j \in ds : i <= j
                 IN  IF /\ Contains(parsed.path, S("telecharger"))
                        /\ DOMAIN target # {}
                     THEN unquote(target[CHOOSE i \in DOMAIN target :
                                             \A j \in DOMAIN target : i <= j])
                     ELSE IF /\ parsed.netloc \in {S("drive.google.com"),
                                                   S("docs.google.com")}
                             /\ \E i \in 1..Len(parts) : parts[i] = S("file")
                             /\ ds # {}
                          THEN IF d + 1 > Len(parts) THEN absolute
                               ELSE S("https://drive.google.com/uc?export=download&id=")
                                      \o parts[d + 1]
                          ELSE absolute)
                 : parsed \in {urlparse(absolute, <<>>)}} : TRUE))
        : absolute \in {urljoin(base_url, href)}} : TRUE)

\* ExamAsset(...): the fields of the dataclass, in their order.
ExamAsset(subject_code, subject_label, year, session, asset_type, source_title, source_page, pdf_url, local_path) ==
    [subject_code |-> subject_code,
     subject_label |-> subject_label,
     year |-> year,
     session |-> session,
     asset_type |-> asset_type,
     source_title |-> source_title,
     source_page |-> source_page,
     pdf_url |-> pdf_url,
     local_path |-> local_path]

\* str.strip() of the pdf_url (pdf_url_key)
StripSpaces(s) ==
    (CHOOSE only \in {(IF keep = {} THEN <<>>
        ELSE SubSeq(s, CHOOSE i \in keep : \A j \in keep : i <= j,
                       CHOOSE i \in keep : \A j \in keep : j <= i))
        : keep \in {{i \in 1..Len(s) : ~IsStrSpace(s[i])}}} : TRUE)

\* The year-or-"unknown_year", session-or-"session" file name of
\* parse_exam_links.
HarvestFileName(subject_code, year, session, asset_type) ==
    sanitize_filename(<<subject_code,
                        IF year = None \/ year = <<>> THEN S("unknown_year")
                        ELSE year,
                        IF session = None \/ session = <<>> THEN S("session")
                        ELSE session,
                        asset_type>>)

\* What parse_exam_links gives in the model when it raises ValueError (an
\* exception that neither harvest_subject nor main catches).
Raised ==
    <<ExamAsset(ValueError, ValueError, ValueError, ValueError, ValueError,
                ValueError, ValueError, ValueError, ValueError)>>

RECURSIVE ParseLinks(_, _, _, _, _, _)
\* The loop of parse_exam_links over the selected anchors; an anchor is
\* [href, text], text being anchor.get_text(strip=True).  normalize_pdf_url
\* and urlparse(pdf_url) raise ValueError on a href that urllib.parse
\* rejects, and the loop ends there without a result.
ParseLinks(anchors, page_url, subject_code, subject_label, target_folder, seen_pdf_urls) ==
    IF Len(anchors) = 0 THEN <<>>
    ELSE IF anchors[1].href = <<>>
    THEN ParseLinks(Tail(anchors), page_url, subject_code, subject_label,
                    target_folder, seen_pdf_urls)
    ELSE (CHOOSE only \in {(IF pdf_url = ValueError THEN Raised
         ELSE IF pdf_url = <<>>
         THEN ParseLinks(Tail(anchors), page_url, subject_code, subject_label,
                         target_folder, seen_pdf_urls)
         ELSE (CHOOSE only \in {(IF parsed_pdf.raises THEN Raised
         ELSE
         LET anchor == anchors[1]
             title == anchor.text
             asset_type == identify_asset_type(title)
             year == identify_year(title)
             session == identify_session(title)
             skip ==
                 \/ /\ ~EndsWith(Lower(pdf_url), S(".pdf"))
                    /\ parsed_pdf.netloc \notin {S("drive.google.com"),
                                                 S("docs.google.com")}
                 \/ title = <<>>
                 \/ Contains(Lower(title), S("préparation"))
                 \/ Contains(Lower(title), S("preparation"))
                 \/ asset_type = None
                 \/ StripSpaces(pdf_url) \in seen_pdf_urls
         IN  IF skip
             THEN ParseLinks(Tail(anchors), page_url, subject_code,
                             subject_label, target_folder, seen_pdf_urls)
             ELSE (CHOOSE only \in {(IF rest = Raised THEN Raised
                 ELSE <<ExamAsset(subject_code, subject_label, year, session,
                                  asset_type, title, page_url, pdf_url,
                                  PathJoin(target_folder,
                                           HarvestFileName(subject_code, year,
                                                           session,
                                                           asset_type)))>>
                        \o rest)
                      : rest \in {ParseLinks(Tail(anchors), page_url,
                             subject_code, subject_label, target_folder,
                             seen_pdf_urls \cup {StripSpaces(pdf_url)})}} : TRUE))
                  : parsed_pdf \in {urlparse(pdf_url, <<>>)}} : TRUE))
             : pdf_url \in {normalize_pdf_url(anchors[1].href, page_url)}} : TRUE)

parse_exam_links(anchors, page_url, subject_code, subject_label, target_folder) ==
    ParseLinks(anchors, page_url, subject_code, subject_label, target_folder,
               {})

RECURSIVE Format(_, _)
\* template.format(**fields), for a template whose braces enclose the names
\* of fields; fields gives the str of every field.
Format(template, fields) ==
    (CHOOSE only \in {(IF open = 0 THEN template
        ELSE (CHOOSE only \in {(SubSeq(template, 1, open - 1)
                 \o fields[SubSeq(template, open + 1, close - 1)]
                 \o Format(SubSeq(template, close + 1, Len(template)), fields))
                 : close \in {open + Find(SubSeq(template, open + 1,
                                                 Len(template)),
                                          S("}"))}} : TRUE))
        : open \in {Find(template, S("{"))}} : TRUE)

\* The fields that build_telmid_asset formats its templates with.
TelmidFields(year, session_name, asset_type) ==
    (S("year") :> IntToStr(year))
      @@ (S("session_label") :> Get(SESSION_LABELS, session_name, session_name))
      @@ (S("type_label") :> Get(TYPE_LABELS, asset_type, None))

\* The URL that build_telmid_asset probes.
TelmidUrl(subject_code, year, session_name, asset_type) ==
    TELMID_PATTERNS[subject_code].base_url
      \o quote(Format(TELMID_PATTERNS[subject_code].file_template,
                      TelmidFields(year, session_name, asset_type)))

\* A fallback ExamAsset that carries the label of the asset type in the
\* place of the asset type.
TelmidAssetLabelled(subject_code, subject_label, folder, year, session_name, asset_type) ==
    ExamAsset(subject_code, subject_label, IntToStr(year), session_name,
              Get(TYPE_LABELS, asset_type, None),
              Format(TELMID_PATTERNS[subject_code].title_template,
                     TelmidFields(year, session_name, asset_type)),
              TELMID_PATTERNS[subject_code].base_url,
              TelmidUrl(subject_code, year, session_name, asset_type),
              PathJoin(folder,
                       sanitize_filename(<<subject_code, IntToStr(year),
                                           session_name, asset_type>>)))

\* The ExamAsset that build_telmid_asset returns when the probe answers OK.
TelmidAsset(subject_code, subject_label, folder, year, session_name, asset_type) ==
    ExamAsset(subject_code, subject_label, IntToStr(year), session_name,
              asset_type,
              Format(TELMID_PATTERNS[subject_code].title_template,
                     TelmidFields(year, session_name, asset_type)),
              TELMID_PATTERNS[subject_code].base_url,
              TelmidUrl(subject_code, year, session_name, asset_type),
              PathJoin(folder,
                       sanitize_filename(<<subject_code, IntToStr(year),
                                           session_name, asset_type>>)))

\* requests.codes.ok
StatusOk == 200

\* TelmidAsset over the keys that gap synthesis visits, with the label and
\* the folder of the subject as main passes them, evaluated once.
TelmidAssets ==
    [subject_code \in {SubjectCodes[i] : i \in 1..Len(SubjectCodes)},
     year \in {YEARS[i] : i \in 1..Len(YEARS)},
     session_name \in {TARGET_SESSIONS[i] : i \in 1..Len(TARGET_SESSIONS)},
     asset_type \in {TARGET_ASSET_TYPES[i] : i \in 1..Len(TARGET_ASSET_TYPES)}
     |-> TelmidAsset(subject_code, SUBJECT_SOURCES[subject_code].label,
                     SUBJECT_SOURCES[subject_code].folder, year, session_name,
                     asset_type)]

\* build_telmid_asset without the test of the status code: only an
\* exception makes it return None.
build_asset_unchecked(subject_code, year, session_name, asset_type, status) ==
    IF subject_code \notin DOMAIN TELMID_PATTERNS THEN <<>>
    ELSE IF Get(TYPE_LABELS, asset_type, None) = None THEN <<>>
    ELSE IF status = 0 THEN <<>>
    ELSE <<TelmidAssets[subject_code, year, session_name, asset_type]>>

\* build_telmid_asset(...) as main calls it, with the label and the folder
\* of the subject: status is the status code of the HEAD response, 0
\* standing for a requests.RequestException.  The result is <<>> for None
\* and <<asset>> for an ExamAsset.
build_telmid_asset(subject_code, year, session_name, asset_type, status) ==
    IF subject_code \notin DOMAIN TELMID_PATTERNS THEN <<>>
    ELSE IF Get(TYPE_LABELS, asset_type, None) = None THEN <<>>
    ELSE IF status = 0 \/ status # StatusOk THEN <<>>
    ELSE <<TelmidAssets[subject_code, year, session_name, asset_type]>>

\* ------------------------------------------------------------------------
\* The manifest files (write_metadata)
\* ------------------------------------------------------------------------

\* The keys of ExamAsset.to_dict(), in the order of the fields.
FieldNames ==
    <<S("subject_code"), S("subject_label"), S("year"), S("session"),
      S("asset_type"), S("source_title"), S("source_page"), S("pdf_url"),
      S("local_path")>>

\* The values of ExamAsset.to_dict(), in the order of the fields; the value
\* of local_path is str(self.local_path).
to_dict(asset) ==
    <<asset.subject_code, asset.subject_label, asset.year, asset.session,
      asset.asset_type, asset.source_title, asset.source_page, asset.pdf_url,
      asset.local_path>>

\* The hexadecimal digit of the value v, in lower case
HexLower(v) == IF v < 10 THEN 48 + v ELSE 87 + v

RECURSIVE JsonEscape(_, _, _)
\* What the characters lo..hi of s give in a JSON string written with
\* ensure_ascii=False: the quote, the backslash and the control characters
\* below U+0020 are escaped, any other character is kept.
JsonEscape(s, lo, hi) ==
    IF lo > hi THEN <<>>
    ELSE IF lo = hi
         THEN IF s[lo] \in {Ord("\""), Ord("\\")} THEN <<Ord("\\"), s[lo]>>
              ELSE IF s[lo] = 10 THEN S("\\n")
              ELSE IF s[lo] = 13 THEN S("\\r")
              ELSE IF s[lo] = 9 THEN S("\\t")
              ELSE IF s[lo] = 8 THEN S("\\b")
              ELSE IF s[lo] = 12 THEN S("\\f")
              ELSE IF s[lo] < 32
                   THEN S("\\u00")
                          \o <<HexLower(s[lo] \div 16), HexLower(s[lo] % 16)>>
              ELSE <<s[lo]>>
    ELSE (CHOOSE only \in {(JsonEscape(s, lo, mid)
                               \o JsonEscape(s, mid + 1, hi))
             : mid \in {(lo + hi) \div 2}} : TRUE)

\* The text of a value of the dict in the JSON file
JsonValue(value) ==
    (CHOOSE only \in {(IF s = None THEN S("null")
                       ELSE S("\"") \o JsonEscape(s, 1, Len(s)) \o S("\""))
        : s \in {value}} : TRUE)

\* The chunks that json.dump(data, json_file, ensure_ascii=False, indent=2)
\* writes for one dict of data, one call of json_file.write for each.
JsonChunks(values) ==
    <<S("{"), S("\n    ")>>
      \o [n \in 1..(4 * Len(FieldNames) - 1) |->
             IF n % 4 = 1 THEN JsonValue(FieldNames[(n + 3) \div 4])
             ELSE IF n % 4 = 2 THEN S(": ")
             ELSE IF n % 4 = 3 THEN JsonValue(values[(n + 1) \div 4])
             ELSE S(",\n    ")]
      \o <<S("\n  "), S("}")>>

RECURSIVE WriteChunks(_, _, _)
\* What writing the chunks lo..hi leaves in a text file opened with
\* encoding="utf-8": the bytes of the chunks, up to the first chunk whose
\* encoding raises.
WriteChunks(chunks, lo, hi) ==
    IF lo = hi
    THEN (CHOOSE only \in {([raises |-> encoded = ValueError,
                             bytes |-> IF encoded = ValueError THEN <<>>
                                       ELSE encoded])
             : encoded \in {Utf8(chunks[lo])}} : TRUE)
    ELSE (CHOOSE only \in {(CHOOSE only \in {(IF left.raises THEN left
              ELSE (CHOOSE only \in {([raises |-> right.raises,
                                       bytes |-> left.bytes \o right.bytes])
                       : right \in {WriteChunks(chunks, mid + 1, hi)}} : TRUE))
              : left \in {WriteChunks(chunks, lo, mid)}} : TRUE)
             : mid \in {(lo + hi) \div 2}} : TRUE)

\* A field of a row of the CSV file: None gives the empty field; a field
\* with a comma, a quote or a line end in it is quoted, its quotes doubled.
CsvField(value) ==
    (CHOOSE only \in {(IF s = None THEN <<>>
        ELSE IF \E i \in 1..Len(s) :
                    s[i] \in {Ord(","), Ord("\""), Ord("\r"), Ord("\n")}
             THEN S("\"") \o Join(S("\"\""), Split(s, Ord("\""))) \o S("\"")
        ELSE s)
        : s \in {value}} : TRUE)

\* A row of the CSV file, as csv.DictWriter writes it.
CsvRow(values) ==
    (CHOOSE only \in {(Join(S(","), fields) \o S("\r\n"))
        : fields \in {<<>> \o [k \in 1..Len(values) |-> CsvField(values[k])]}}
        : TRUE)

\* What write_metadata writes for one entry of the manifest: the bytes of
\* its dict in the JSON file, whether the writing of them raises, and the
\* bytes of its row in the CSV file.
Entry(asset) ==
    (CHOOSE only \in {([raises |-> json.raises,
                        json |-> json.bytes,
                        csv |-> IF json.raises THEN <<>>
                                ELSE Utf8(CsvRow(to_dict(asset)))])
        : json \in {(CHOOSE only \in {(WriteChunks(chunks, 1, Len(chunks)))
                        : chunks \in {JsonChunks(to_dict(asset))}} : TRUE)}}
        : TRUE)

\* ------------------------------------------------------------------------
\* The environment: pages, probes, response bodies, files already present
\* ------------------------------------------------------------------------

\* Anchors of source pages, as [href, text]: href is the attribute as
\* written in the page, text is anchor.get_text(strip=True).
AnchorTelmid ==
    [href |-> S("https://telmidtice.com/assets/e-2008-n.pdf"),
     text |-> S("Examen National 2008 Session Normale")]

AnchorTaalime ==
    [href |-> S("https://www.taalime.ma/files/2008-normale.pdf"),
     text |-> S("Sujet 2008 normale")]

AnchorMoutamadris ==
    [href |-> S("https://moutamadris.ma/bac/2008-normale.PDF"),
     text |-> S("Examen 2008 Session Normale")]

AnchorMen ==
    [href |-> S("https://www.men.gov.ma/telecharger?url=https%3A%2F%2Fwww.men.gov.ma%2Fe.pdf"),
     text |-> S("Sujet 2008 Session Normale")]

AnchorSuffix ==
    [href |-> S("https://www.nottelmidtice.com/2008-n.pdf"),
     text |-> S("Sujet 2008 Session Normale")]

AnchorDrive ==
    [href |-> S("https://drive.google.com/file/d/abc123/view"),
     text |-> S("CORRIGÉ 2008 Rattrapage")]

AnchorNoSession ==
    [href |-> S("/files/2008.pdf"), text |-> S("Examen National 2008")]

AnchorNoYear ==
    [href |-> S("corrige-normale.pdf"), text |-> S("Corrigé session normale")]

AnchorOldYear ==
    [href |-> S("https://www.taalime.ma/files/1999-normale.pdf"),
     text |-> S("Examen 1999 Session principale")]

AnchorDrill ==
    [href |-> S("https://www.taalime.ma/files/prep.pdf"),
     text |-> S("Préparation examen 2008 normale")]

\* A href with an opening bracket in its host and no closing one.
AnchorMalformed ==
    [href |-> S("http://[::1/a.pdf"),
     text |-> S("Sujet 2008 Session Normale")]

\* Two hrefs whose url parameter has a percent-encoded Greek letter in it.
AnchorAlpha ==
    [href |-> S("/telecharger?url=https://www.taalime.ma/%CE%B1.pdf"),
     text |-> S("Sujet 2008 normale")]

AnchorBeta ==
    [href |-> S("/telecharger?url=https://www.taalime.ma/%CE%B2.pdf"),
     text |-> S("Corrigé 2008 normale")]

\* The URL of AnchorTaalime behind a percent-encoded EM SPACE (U+2003).
AnchorSpaced ==
    [href |-> S("/telecharger?url=%E2%80%83https://www.taalime.ma/files/2008-normale.pdf"),
     text |-> S("Corrigé 2008 normale")]

\* A url parameter whose host ends with a percent-encoded FULLWIDTH SOLIDUS
\* (U+FF0F).
AnchorFullwidth ==
    [href |-> S("/telecharger?url=https://www.taalime.ma%EF%BC%8Fb.pdf"),
     text |-> S("Sujet 2008 normale")]

\* Two titles whose year is written with the ARABIC-INDIC DIGITS ZERO
\* (U+0660), EIGHT (U+0668) and NINE (U+0669): "20\u0660\u0668" and
\* "20\u0660\u0669".
AnchorIndic2008 ==
    [href |-> S("https://www.taalime.ma/files/sujet-a.pdf"),
     text |-> S("Sujet 20") \o <<1632, 1640>> \o S(" Session Normale")]

AnchorIndic2009 ==
    [href |-> S("https://www.taalime.ma/files/sujet-b.pdf"),
     text |-> S("Sujet 20") \o <<1632, 1641>> \o S(" Session Normale")]

\* The lists of anchors that the selector of parse_exam_links may find in a
\* fetched page.
PageBodies ==
    { <<>>,
      <<AnchorTelmid, AnchorTaalime>>,
      <<AnchorTaalime, AnchorTelmid>>,
      <<AnchorTaalime, AnchorMoutamadris, AnchorTaalime>>,
      <<AnchorMoutamadris, AnchorMen, AnchorTaalime, AnchorDrive>>,
      <<AnchorMen, AnchorSuffix>>,
      <<AnchorDrill, AnchorNoSession, AnchorNoYear, AnchorOldYear>>,
      <<AnchorTelmid, AnchorMalformed>>,
      <<AnchorAlpha, AnchorBeta>>,
      <<AnchorTaalime, AnchorSpaced>>,
      <<AnchorTelmid, AnchorFullwidth>>,
      <<AnchorIndic2008, AnchorIndic2009>> }

\* The status codes a HEAD probe or a GET may answer with; 0 stands for a
\* requests.RequestException raised by the call.
ProbeFailures == {0, 404}

GetFailures == {0, 404, 500}

\* The body every download streams unless an event changes it.
NominalBody == <<S("%PDF-1.4\n"), S("%%EOF\n")>>

\* The other bodies, as the chunks that iter_content yields.
OtherBodies ==
    { <<>>,
      <<S("<html>"), S("</html>")>>,
      <<S("%PD"), S("F-1.4")>>,
      <<S("  "), S("%PDF-1.4")>>,
      <<<<>>, S("\n %PDF-1.7")>> }

\* ------------------------------------------------------------------------
\* State
\* ------------------------------------------------------------------------

VARIABLES
    pc,              \* the position of main
    subj,            \* index in SubjectCodes of the subject being harvested
    page,            \* index of the next page of harvest_subject
    subject_assets,  \* the list harvest_subject builds, then main iterates
    idx,             \* index in subject_assets of the next asset to merge
    assets_by_key,   \* the dict of main: Canonical Key -> ExamAsset
    gap,             \* index in ExpectedKeys of the next key of gap synthesis
    probed,          \* the keys probed so far -> the status of the answer
    missing_keys,    \* the list of main
    sorted_assets,   \* the list of main
    fidx,            \* index in sorted_assets of the next download
    files,           \* the storage tree: existing path -> bytes written
    dl,              \* the download under way: chunks left and first_bytes
    manifest,        \* the list of main
    exit_status,     \* the exit status of the program (the value main
                     \* returned, 1 after an uncaught exception), -1
                     \* while main runs
    run,             \* 1: the run of main; 2: a second Fetch & Validate
    first_manifest,  \* the manifest of the first run, once it ended
    requested,       \* the assets whose pdf_url was requested in this run
    attempts,        \* the assets passed to download_pdf in this run, in order
    raw,             \* every asset harvested so far, in arrival order
    pages,           \* per page fetched so far: its URL, whether the fetch
                     \* was OK, and the number of assets it added
    last,            \* how the last call of download_pdf went
    head_status,     \* the server: expected key -> the status a HEAD of
                     \* its fallback URL answers with (0: an exception)
    events           \* the environment: the events so far (count) and
                     \* the most that the behaviour has (most)

vars == <<pc, subj, page, subject_assets, idx, assets_by_key, gap, probed,
          missing_keys, sorted_assets, fidx, files, dl, manifest,
          exit_status, run, first_manifest, requested, attempts, raw,
          pages, last,
          head_status, events>>

\* Nested loops that come to every key of the Expected Key Space twice.
ExpectedKeysTwice ==
    LET ns == Len(TARGET_SESSIONS)
        nt == Len(TARGET_ASSET_TYPES)
        ny == Len(YEARS)
        n == Len(SubjectCodes) * ny * ns * nt
    IN  [i \in 1..(2 * n) |->
            << SubjectCodes[(((i - 1) % n) \div (ny * ns * nt)) + 1],
               YEARS[((((i - 1) % n) \div (ns * nt)) % ny) + 1],
               TARGET_SESSIONS[((((i - 1) % n) \div nt) % ns) + 1],
               TARGET_ASSET_TYPES[(((i - 1) % n) % nt) + 1] >>]

\* The Expected Key Space in the order of the nested loops of main.
ExpectedKeys ==
    LET ns == Len(TARGET_SESSIONS)
        nt == Len(TARGET_ASSET_TYPES)
        ny == Len(YEARS)
        n == Len(SubjectCodes) * ny * ns * nt
    IN  [i \in 1..n |->
            << SubjectCodes[((i - 1) \div (ny * ns * nt)) + 1],
               YEARS[(((i - 1) \div (ns * nt)) % ny) + 1],
               TARGET_SESSIONS[(((i - 1) \div nt) % ns) + 1],
               TARGET_ASSET_TYPES[((i - 1) % nt) + 1] >>]

ExpectedKeySet == {ExpectedKeys[i] : i \in 1..Len(ExpectedKeys)}

\* The destination path that build_telmid_asset computes for an expected
\* key, and parse_exam_links for a candidate of the key whose year is
\* written with the ASCII digits.
KeyPaths ==
    [key \in ExpectedKeySet |->
        PathJoin(SUBJECT_SOURCES[key[1]].folder,
                 sanitize_filename(<<key[1], IntToStr(key[2]), key[3],
                                     key[4]>>))]

EmptyMap == [k \in {} |-> None]

NoDownload == [chunks |-> <<>>, first_bytes |-> None]

\* assets_by_key[key] = asset
DictSet(map, key, value) ==
    [k \in DOMAIN map \cup {key} |-> IF k = key THEN value ELSE map[k]]

\* An unlink that clears the whole storage tree.
UnlinkAll(tree, path) == [q \in {} |-> tree[q]]

\* Path.unlink(missing_ok=True)
Unlink(tree, path) == [q \in DOMAIN tree \ {path} |-> tree[q]]

RECURSIVE SubsetsUpTo(_, _)
\* The subsets of set of at most n elements.
SubsetsUpTo(set, n) ==
    IF n = 0 THEN {{}}
    ELSE LET smaller == SubsetsUpTo(set, n - 1)
         IN  smaller \cup {T \cup {x} : T \in smaller, x \in set}

\* The behaviour may have one more event, and events after it.
MayHappen == events.count < events.most

Happened == [events EXCEPT !.count = @ + 1]

\* The behaviour may have an event that happens alone, and events after it.
MayHappenAlone == events.count = 0

HappenedAlone == [events EXCEPT !.count = events.most]

\* The download of asset may be an event, and events after it was one; as
\* an event the download of a synthesized fallback candidate happens alone.
MayFail(asset) ==
    IF asset \in {raw[i] : i \in 1..Len(raw)} THEN MayHappen
    ELSE MayHappenAlone

AfterFailure(asset) ==
    IF asset \in {raw[i] : i \in 1..Len(raw)} THEN Happened
    ELSE HappenedAlone

\* No call of download_pdf has returned yet.
NoCall ==
    [kind |-> "none", result |-> FALSE, first_bytes |-> None, written |-> <<>>]

\* The state in which main starts, in an environment of at most most
\* events.
Start(most) ==
    /\ pc = "harvest"
    /\ subj = 1
    /\ page = 1
    /\ subject_assets = <<>>
    /\ idx = 1
    /\ assets_by_key = EmptyMap
    /\ gap = 1
    /\ probed = EmptyMap
    /\ missing_keys = <<>>
    /\ sorted_assets = <<>>
    /\ fidx = 1
    /\ \E present \in SubsetsUpTo(ExpectedKeySet, 1) :
       \E down \in SubsetsUpTo(ExpectedKeySet, 1 - Cardinality(present)) :
       \E failure \in [down -> ProbeFailures] :
           /\ files = [path \in {KeyPaths[key] : key \in present} |-> S("<html>")]
           /\ head_status = [key \in ExpectedKeySet |->
                                 IF key \in down THEN failure[key]
                                 ELSE StatusOk]
           /\ events = [count |-> IF present \cup down = {} THEN 0 ELSE most,
                         most |-> most]
    /\ dl = NoDownload
    /\ manifest = <<>>
    /\ exit_status = -1
    /\ run = 1
    /\ first_manifest = <<>>
    /\ requested = {}
    /\ attempts = <<>>
    /\ raw = <<>>
    /\ pages = <<>>
    /\ last = NoCall

Init == Start(MaxEvents)

FairInit == Start(MaxFairEvents)

\* ------------------------------------------------------------------------
\* Harvest and reconciliation (main, first loop)
\* ------------------------------------------------------------------------

\* parse_exam_links of every page of every subject on every page body,
\* computed once.
ParsedPages ==
    [triple \in {<<SubjectCodes[s], p, anchors>> :
                     s \in 1..Len(SubjectCodes),
                     p \in 1..Len(SUBJECT_SOURCES[SubjectCodes[1]].pages),
                     anchors \in PageBodies} |->
        parse_exam_links(triple[3],
                         SUBJECT_SOURCES[triple[1]].pages[triple[2]],
                         triple[1], SUBJECT_SOURCES[triple[1]].label,
                         SUBJECT_SOURCES[triple[1]].folder)]

\* One iteration of the loop of harvest_subject: the page is fetched and
\* parsed.  A failed fetch adds nothing; after the last page
\* harvest_subject returns and main starts to merge subject_assets.  A
\* ValueError that parse_exam_links raises is caught nowhere: it ends main
\* with a traceback, and the interpreter exits with status 1.
HarvestPage ==
    /\ pc = "harvest"
    /\ page <= Len(SUBJECT_SOURCES[SubjectCodes[subj]].pages)
    /\ LET code == SubjectCodes[subj]
           page_url == SUBJECT_SOURCES[code].pages[page]
           last_page == page = Len(SUBJECT_SOURCES[code].pages)
       IN  \/ /\ MayHappen
              /\ \E status \in GetFailures : events' = Happened
              /\ UNCHANGED <<subject_assets, raw, exit_status>>
              /\ pages' = Append(pages, [url |-> page_url, ok |-> FALSE,
                                          count |-> 0])
              /\ page' = page + 1
              /\ pc' = IF last_page THEN "reconcile" ELSE "harvest"
           \/ \E anchors \in PageBodies :
                  \E new_assets \in {ParsedPages[<<code, page, anchors>>]} :
                      /\ anchors # <<>> => MayHappen
                      /\ new_assets # Raised =>
                             Len(raw) + Len(new_assets) <= MaxHarvest
                      /\ events' = IF anchors = <<>> THEN events ELSE Happened
                      /\ IF new_assets = Raised
                         THEN /\ pc' = "raised"
                              /\ exit_status' = 1
                              /\ UNCHANGED <<subject_assets, raw, pages,
                                             page>>
                         ELSE /\ subject_assets' =
                                     subject_assets \o new_assets
                              /\ raw' = raw \o new_assets
                              /\ pages' = Append(pages,
                                            [url |-> page_url, ok |-> TRUE,
                                             count |-> Len(new_assets)])
                              /\ page' = page + 1
                              /\ pc' = IF last_page THEN "reconcile"
                                       ELSE "harvest"
                              /\ UNCHANGED exit_status
    /\ idx' = 1
    /\ UNCHANGED <<subj, assets_by_key, gap, probed, missing_keys,
                   sorted_assets, fidx, files, dl, manifest,
                   run, first_manifest, requested, attempts, last, head_status>>

\* Reconcile with a dict key that leaves the asset type out.
ReconcileWithoutType(map, asset) ==
    LET key == asset_key(asset)
        slot == IF key = NoKey THEN NoKey ELSE <<key[1], key[2], key[3]>>
    IN  IF key = NoKey THEN map
        ELSE IF slot \notin DOMAIN map THEN DictSet(map, slot, asset)
        ELSE IF prefer_asset(asset, map[slot]) THEN DictSet(map, slot, asset)
        ELSE map

\* The body of the loop over subject_assets: the dict after asset.
Reconcile(map, asset) ==
    LET key == asset_key(asset)
    IN  IF key = NoKey THEN map
        ELSE IF key \notin DOMAIN map THEN DictSet(map, key, asset)
        ELSE IF prefer_asset(asset, map[key]) THEN DictSet(map, key, asset)
        ELSE map

\* A loop over subject_assets that starts from the last candidate.
ReconcileAssetBackwards ==
    /\ pc = "reconcile"
    /\ idx <= Len(subject_assets)
    /\ assets_by_key' =
           Reconcile(assets_by_key,
                     subject_assets[Len(subject_assets) - idx + 1])
    /\ idx' = idx + 1
    /\ UNCHANGED <<pc, subj, page, subject_assets, gap, probed, missing_keys,
                   sorted_assets, fidx, files, dl, manifest, exit_status,
                   run, first_manifest, requested, attempts, raw, pages, last,
                   head_status, events>>

\* One iteration of the loop over subject_assets in main.
ReconcileAsset ==
    /\ pc = "reconcile"
    /\ idx <= Len(subject_assets)
    /\ assets_by_key' = Reconcile(assets_by_key, subject_assets[idx])
    /\ idx' = idx + 1
    /\ UNCHANGED <<pc, subj, page, subject_assets, gap, probed, missing_keys,
                   sorted_assets, fidx, files, dl, manifest, exit_status,
                   run, first_manifest, requested, attempts, raw, pages, last,
                   head_status, events>>

\* The loop over subject_assets ends: the next subject is harvested, or the
\* first loop of main ends and gap synthesis starts.
NextSubject ==
    /\ pc = "reconcile"
    /\ idx > Len(subject_assets)
    /\ IF subj < Len(SubjectCodes)
       THEN /\ subj' = subj + 1
            /\ pc' = "harvest"
            /\ UNCHANGED gap
       ELSE /\ pc' = "synthesize"
            /\ gap' = 1
            /\ UNCHANGED subj
    /\ page' = 1
    /\ subject_assets' = <<>>
    /\ idx' = 1
    /\ UNCHANGED <<assets_by_key, probed, missing_keys, sorted_assets, fidx,
                   files, dl, manifest, exit_status, run, first_manifest,
                   requested, attempts, raw, pages, last, head_status, events>>

\* ------------------------------------------------------------------------
\* Gap synthesis (main, second loop)
\* ------------------------------------------------------------------------

\* The dict after the body of the innermost loop for a key that is absent,
\* the HEAD probe having answered status.
Synthesize(map, key, status) ==
    LET fallback_asset ==
            build_telmid_asset(key[1], key[2], key[3], key[4], status)
    IN  IF fallback_asset # <<>> THEN DictSet(map, key, fallback_asset[1])
        ELSE map

\* A test that takes every key for a gap.
OccupiedNever(map, key) == FALSE

\* if key in assets_by_key: continue
Occupied(map, key) == key \in DOMAIN map

\* One iteration of the innermost loop of gap synthesis: a key that is in
\* the dict is passed over, for another the fallback URL is probed.
SynthesizeKey ==
    /\ pc = "synthesize"
    /\ gap <= Len(ExpectedKeys)
    /\ LET key == ExpectedKeys[gap]
       IN  IF Occupied(assets_by_key, key)
           THEN UNCHANGED <<assets_by_key, probed>>
           ELSE /\ assets_by_key' =
                       Synthesize(assets_by_key, key, head_status[key])
                /\ probed' = DictSet(probed, key, head_status[key])
    /\ gap' = gap + 1
    /\ UNCHANGED <<pc, subj, page, subject_assets, idx, missing_keys,
                   sorted_assets, fidx, files, dl, manifest, exit_status,
                   run, first_manifest, requested, attempts, raw, pages, last,
                   head_status, events>>

\* The sort key of main: (subject_code, year, session rank, type rank,
\* local_path.name).  The year is int(asset.year) if asset.year and
\* asset.year.isdigit() else 0, and int() raises ValueError on the digits
\* that are not decimal (the superscripts); the name of the path is what
\* follows its last "/".
SortKey(asset) ==
    LET path == asset.local_path
        cut == {i \in 1..Len(path) : path[i] = Ord("/")}
    IN  <<asset.subject_code,
          IF asset.year # None /\ asset.year # <<>> /\ IsDigits(asset.year)
          THEN IF IsInt(asset.year) THEN StrToInt(asset.year) ELSE ValueError
          ELSE 0,
          Get(SESSION_ORDER,
              IF asset.session = None THEN <<>> ELSE asset.session, 99),
          Get(TYPE_ORDER, asset.asset_type, 99),
          IF cut = {} THEN path
          ELSE SubSeq(path, (CHOOSE c \in cut : \A d \in cut : d <= c) + 1,
                      Len(path))>>

\* a < b for two sort keys, as Python compares tuples: decided by the
\* first component that differs.
KeyLess(a, b) ==
    IF a[1] # b[1] THEN StrLess(a[1], b[1])
    ELSE IF a[2] # b[2] THEN a[2] < b[2]
    ELSE IF a[3] # b[3] THEN a[3] < b[3]
    ELSE IF a[4] # b[4] THEN a[4] < b[4]
    ELSE StrLess(a[5], b[5])

\* sorted(assets_by_key.values(), key=...).  The values of the dict have
\* pairwise different sort keys, so the order of insertion into the dict,
\* which sorted keeps between equal keys, decides nothing: an asset stands
\* after exactly the assets that sort before it.  The key of an asset is
\* computed once, as sorted does; ranked holds the assets with, for each,
\* the number of assets that sort before it.
SortAssets(assets) ==
    (CHOOSE only \in {([i \in 1..Cardinality(assets) |->
            (CHOOSE pair \in ranked : pair[1] = i - 1)[2]])
        : ranked \in {(CHOOSE only \in {({<<Cardinality({q \in keyed :
                                                  KeyLess(q[1], p[1])}),
                                            p[2]>> : p \in keyed})
                         : keyed \in {{<<SortKey(a), a>> : a \in assets}}}
                         : TRUE)}} : TRUE)

\* The missing keys looked for among the exam papers only.
MissingMainExamKeys(map) ==
    SelectSeq(ExpectedKeys,
              LAMBDA key : key[4] = TARGET_ASSET_TYPES[1]
                             /\ key \notin DOMAIN map)

\* The keys of the Expected Key Space that are not in the dict, in loop
\* order.
MissingKeys(map) ==
    SelectSeq(ExpectedKeys, LAMBDA key : key \notin DOMAIN map)

\* main from the computation of missing_keys to the start of the download
\* loop: the missing keys are logged, the assets sorted.
ReportMissing ==
    /\ pc = "synthesize"
    /\ gap > Len(ExpectedKeys)
    /\ missing_keys' = MissingKeys(assets_by_key)
    /\ sorted_assets' =
           SortAssets({assets_by_key[k] : k \in DOMAIN assets_by_key})
    /\ manifest' = <<>>
    /\ fidx' = 1
    /\ pc' = "fetch"
    /\ UNCHANGED <<subj, page, subject_assets, idx, assets_by_key, gap,
                   probed, files, dl, exit_status, run, first_manifest,
                   requested, attempts, raw, pages, last, head_status, events>>

\* ------------------------------------------------------------------------
\* Fetch & Validate (download_pdf and the download loop of main)
\* ------------------------------------------------------------------------

\* The signature check without the test for a body of no chunk.
BadSignatureOfChunk(first_bytes) ==
    first_bytes # None /\ ~StartsWith(LStrip(first_bytes), S("%PDF"))

\* first_bytes is None or first_bytes.lstrip() does not start with b"%PDF"
BadSignature(first_bytes) ==
    first_bytes = None \/ ~StartsWith(LStrip(first_bytes), S("%PDF"))

\* An existence test that never finds the file.
ExistsNever(tree, path) == FALSE

\* asset.local_path.exists()
Exists(tree, path) == path \in DOMAIN tree

\* The handler of requests.RequestException in download_pdf: the
\* destination is deleted if it exists.
HandleRequestException(tree, path) ==
    IF Exists(tree, path) THEN Unlink(tree, path) ELSE tree

\* A download loop that gives a failed download another try.
ReturnedOrRetry(asset, result, kind) ==
    /\ manifest' = IF result THEN Append(manifest, asset) ELSE manifest
    /\ fidx' = IF result THEN fidx + 1 ELSE fidx
    /\ pc' = "fetch"
    /\ dl' = NoDownload
    /\ last' = [kind |-> kind, result |-> result,
                first_bytes |-> dl.first_bytes,
                written |-> IF pc = "stream" THEN files[asset.local_path]
                            ELSE <<>>]

\* download_pdf returned: main appends the asset to manifest when the
\* result is True, and goes on with the next asset.  last keeps how the
\* call ended and what it had written to the destination by then.
Returned(asset, result, kind) ==
    /\ manifest' = IF result THEN Append(manifest, asset) ELSE manifest
    /\ fidx' = fidx + 1
    /\ pc' = "fetch"
    /\ dl' = NoDownload
    /\ last' = [kind |-> kind, result |-> result,
                first_bytes |-> dl.first_bytes,
                written |-> IF pc = "stream" THEN files[asset.local_path]
                            ELSE <<>>]

\* download_pdf with a check of the file it finds at the destination: a
\* file without the signature is deleted and the call returns False.
DownloadSkipValidating ==
    /\ pc = "fetch"
    /\ fidx <= Len(sorted_assets)
    /\ Exists(files, sorted_assets[fidx].local_path)
    /\ attempts' = Append(attempts, sorted_assets[fidx])
    /\ IF BadSignature(files[sorted_assets[fidx].local_path])
       THEN /\ files' = Unlink(files, sorted_assets[fidx].local_path)
            /\ Returned(sorted_assets[fidx], FALSE, "skipped")
       ELSE /\ UNCHANGED files
            /\ Returned(sorted_assets[fidx], TRUE, "skipped")
    /\ UNCHANGED <<subj, page, subject_assets, idx, assets_by_key, gap,
                   probed, missing_keys, sorted_assets, exit_status,
                   run, first_manifest, requested, raw, pages, head_status,
                   events>>

\* download_pdf, the destination exists: nothing is requested.
DownloadSkip ==
    /\ pc = "fetch"
    /\ fidx <= Len(sorted_assets)
    /\ Exists(files, sorted_assets[fidx].local_path)
    /\ attempts' = Append(attempts, sorted_assets[fidx])
    /\ Returned(sorted_assets[fidx], TRUE, "skipped")
    /\ UNCHANGED <<subj, page, subject_assets, idx, assets_by_key, gap,
                   probed, missing_keys, sorted_assets, files, exit_status,
                   run, first_manifest, requested, raw, pages, head_status,
                   events>>

\* download_pdf, session.get or raise_for_status raises a RequestException:
\* no file was opened, the handler finds none to delete.
DownloadRefused ==
    /\ pc = "fetch"
    /\ fidx <= Len(sorted_assets)
    /\ ~Exists(files, sorted_assets[fidx].local_path)
    /\ MayFail(sorted_assets[fidx])
    /\ \E status \in GetFailures :
           events' = AfterFailure(sorted_assets[fidx])
    /\ requested' = requested \cup {sorted_assets[fidx]}
    /\ attempts' = Append(attempts, sorted_assets[fidx])
    /\ files' = HandleRequestException(files, sorted_assets[fidx].local_path)
    /\ Returned(sorted_assets[fidx], FALSE, "refused")
    /\ UNCHANGED <<subj, page, subject_assets, idx, assets_by_key, gap,
                   probed, missing_keys, sorted_assets, exit_status, run,
                   first_manifest, raw, pages, head_status>>

\* download_pdf, the response is OK: asset.local_path.open("wb") creates
\* the destination, empty, and the streaming of body starts.
OpenDestination(body) ==
    /\ requested' = requested \cup {sorted_assets[fidx]}
    /\ attempts' = Append(attempts, sorted_assets[fidx])
    /\ files' = DictSet(files, sorted_assets[fidx].local_path, <<>>)
    /\ dl' = [chunks |-> body, first_bytes |-> None]
    /\ pc' = "stream"

DownloadOpen ==
    /\ pc = "fetch"
    /\ fidx <= Len(sorted_assets)
    /\ ~Exists(files, sorted_assets[fidx].local_path)
    /\ \/ OpenDestination(NominalBody) /\ UNCHANGED events
       \/ /\ MayFail(sorted_assets[fidx])
          /\ \E body \in OtherBodies : OpenDestination(body)
          /\ events' = AfterFailure(sorted_assets[fidx])
    /\ UNCHANGED <<subj, page, subject_assets, idx, assets_by_key, gap,
                   probed, missing_keys, sorted_assets, fidx, manifest,
                   exit_status, run, first_manifest, raw, pages, last,
                   head_status>>

\* One iteration of the loop over response.iter_content: an empty chunk is
\* passed over, another is written to the destination.
StreamChunk ==
    /\ pc = "stream"
    /\ dl.chunks # <<>>
    /\ LET chunk == Head(dl.chunks)
           path == sorted_assets[fidx].local_path
       IN  IF chunk = <<>>
           THEN /\ dl' = [dl EXCEPT !.chunks = Tail(dl.chunks)]
                /\ UNCHANGED files
           ELSE /\ dl' = [chunks |-> Tail(dl.chunks),
                          first_bytes |-> IF dl.first_bytes = None THEN chunk
                                          ELSE dl.first_bytes]
                /\ files' = [files EXCEPT ![path] = files[path] \o chunk]
    /\ UNCHANGED <<pc, subj, page, subject_assets, idx, assets_by_key, gap,
                   probed, missing_keys, sorted_assets, fidx, manifest,
                   exit_status, run, first_manifest, requested, attempts,
                   raw, pages,
                   last, head_status, events>>

\* iter_content raises a RequestException, before or between chunks or at
\* the end of the body: the handler deletes the destination if it exists.
StreamError ==
    /\ pc = "stream"
    /\ MayFail(sorted_assets[fidx])
    /\ events' = AfterFailure(sorted_assets[fidx])
    /\ files' = HandleRequestException(files, sorted_assets[fidx].local_path)
    /\ Returned(sorted_assets[fidx], FALSE, "interrupted")
    /\ UNCHANGED <<subj, page, subject_assets, idx, assets_by_key, gap,
                   probed, missing_keys, sorted_assets, exit_status, run,
                   first_manifest, requested, attempts,
                   raw, pages, head_status>>

\* The body is exhausted and the file closed: the signature check of the
\* first chunk deletes the destination or keeps it.
StreamEnd ==
    /\ pc = "stream"
    /\ dl.chunks = <<>>
    /\ IF BadSignature(dl.first_bytes)
       THEN /\ files' = Unlink(files, sorted_assets[fidx].local_path)
            /\ Returned(sorted_assets[fidx], FALSE, "complete")
       ELSE /\ UNCHANGED files
            /\ Returned(sorted_assets[fidx], TRUE, "complete")
    /\ UNCHANGED <<subj, page, subject_assets, idx, assets_by_key, gap,
                   probed, missing_keys, sorted_assets, exit_status, run,
                   first_manifest, requested, attempts, raw, pages, head_status,
                   events>>

\* ROOT_DIR / "exams_metadata.json"
json_path == PathJoin(ROOT_DIR, S("exams_metadata.json"))

\* ROOT_DIR / "exams_metadata.csv"
csv_path == PathJoin(ROOT_DIR, S("exams_metadata.csv"))

\* Entry of every fallback candidate, computed once.
FallbackEntries ==
    [asset \in {TelmidAssets[key] : key \in DOMAIN TelmidAssets} |->
        Entry(asset)]

RECURSIVE WriteEntries(_, _, _)
\* What write_metadata writes for the entries lo..hi of data: the dicts of
\* the JSON file with the separators between them, up to the first write
\* that raises, and the rows of the CSV file.
WriteEntries(data, lo, hi) ==
    IF lo = hi
    THEN IF data[lo] \in DOMAIN FallbackEntries THEN FallbackEntries[data[lo]]
         ELSE Entry(data[lo])
    ELSE (CHOOSE only \in {(CHOOSE only \in {(IF left.raises THEN left
              ELSE (CHOOSE only \in {([raises |-> right.raises,
                         json |-> left.json \o S(",\n  ") \o right.json,
                         csv |-> left.csv \o right.csv])
                       : right \in {WriteEntries(data, mid + 1, hi)}} : TRUE))
              : left \in {WriteEntries(data, lo, mid)}} : TRUE)
             : mid \in {(lo + hi) \div 2}} : TRUE)

\* write_metadata(data): the storage tree it leaves, and whether it
\* raises.  An empty list writes nothing.  json.dump writes the list
\* of the dicts of the entries, indented by 2, to exams_metadata.json; a
\* str that UTF-8 cannot encode (a lone surrogate) raises at the write of
\* its chunk, which leaves the file with what was written before it and
\* exams_metadata.csv as it was.  csv.DictWriter then writes the header and
\* a row for each entry to exams_metadata.csv.
write_metadata(data, tree) ==
    IF data = <<>> THEN [raises |-> FALSE, files |-> tree]
    ELSE (CHOOSE only \in {(IF written.raises
              THEN [raises |-> TRUE,
                    files |-> DictSet(tree, json_path,
                                      S("[\n  ") \o written.json)]
              ELSE [raises |-> FALSE,
                    files |-> DictSet(DictSet(tree, json_path,
                                              S("[\n  ") \o written.json
                                                \o S("\n]")),
                                      csv_path,
                                      Utf8(CsvRow(FieldNames))
                                        \o written.csv)])
              : written \in {WriteEntries(data, 1, Len(data))}} : TRUE)

\* The download loop ends: write_metadata(manifest) writes the manifest
\* files, and main returns 0.  An exception that write_metadata raises is
\* caught nowhere: it ends main with a traceback and the exit status 1.
Finish ==
    /\ pc = "fetch"
    /\ fidx > Len(sorted_assets)
    /\ \E metadata \in {write_metadata(manifest, files)} :
           /\ files' = metadata.files
           /\ pc' = IF metadata.raises THEN "raised" ELSE "done"
           /\ exit_status' = IF metadata.raises THEN 1 ELSE 0
    /\ UNCHANGED <<subj, page, subject_assets, idx, assets_by_key, gap,
                   probed, missing_keys, sorted_assets, fidx, dl,
                   manifest, run, first_manifest, requested, attempts,
                   raw, pages,
                   last, head_status, events>>

\* Fetch & Validate is run a second time on the same final merged map and
\* the storage tree the first run left: the download loop of main again,
\* with a new manifest, and write_metadata at its end.
Rerun ==
    /\ pc = "done"
    /\ run = 1
    /\ run' = 2
    /\ first_manifest' = manifest
    /\ manifest' = <<>>
    /\ requested' = {}
    /\ attempts' = <<>>
    /\ last' = NoCall
    /\ fidx' = 1
    /\ pc' = "fetch"
    /\ UNCHANGED <<subj, page, subject_assets, idx, assets_by_key, gap,
                   probed, missing_keys, sorted_assets, files, dl,
                   exit_status, raw, pages, head_status, events>>

Next ==
    \/ HarvestPage
    \/ ReconcileAsset
    \/ NextSubject
    \/ SynthesizeKey
    \/ ReportMissing
    \/ DownloadSkip
    \/ DownloadRefused
    \/ DownloadOpen
    \/ StreamChunk
    \/ StreamError
    \/ StreamEnd
    \/ Finish
    \/ Rerun

Spec == Init /\ [][Next]_vars

\* main is a sequential program: it takes its next step as long as it has
\* one.
FairSpec == FairInit /\ [][Next]_vars /\ WF_vars(Next)
\* ------------------------------------------------------------------------
\* Properties
\* ------------------------------------------------------------------------

Range(seq) == {seq[i] : i \in 1..Len(seq)}

\* The rank of the host of the URL of an asset in the preference order.
HostRank(asset) == host_rank(Lower(Netloc(asset.pdf_url)))

\* The asset that the download loop handed to download_pdf last.
LastAsset == sorted_assets[fidx - 1]

\* C1 (uniqueness): in every state of reconciliation and gap synthesis the
\* dict holds, for each Canonical Key, at most one candidate of that key:
\* every candidate it holds is held under its own Canonical Key, so no two
\* held candidates have the same one.
C1_Uniqueness ==
    pc \in {"harvest", "reconcile", "synthesize"} =>
        \A k \in DOMAIN assets_by_key :
            /\ k # NoKey
            /\ asset_key(assets_by_key[k]) = k

\* Gap synthesis is over; two different candidates of one Canonical Key were
\* harvested and a fallback candidate was stored for another key.
C1_Witness ==
    /\ pc = "synthesize"
    /\ gap > Len(ExpectedKeys)
    /\ \E i, j \in 1..Len(raw) :
           /\ raw[i] # raw[j]
           /\ asset_key(raw[i]) # NoKey
           /\ asset_key(raw[i]) = asset_key(raw[j])
    /\ \E k \in DOMAIN probed :
           /\ probed[k] = StatusOk
           /\ k \in DOMAIN assets_by_key

\* C2 (preference determinism): when the reconciliation loop of a subject
\* ends, of two candidates with the same Canonical Key whose hosts rank
\* differently, whichever arrived first, the one of the worse rank does not
\* occupy the key, and the one of the better rank occupies it when the two
\* are the only candidates of the key.
C2_PreferenceDeterminism ==
    (pc = "reconcile" /\ idx > Len(subject_assets)) =>
        LET n == Len(subject_assets)
            keys == [i \in 1..n |-> asset_key(subject_assets[i])]
            rank == [i \in 1..n |-> HostRank(subject_assets[i])]
        IN  \A a, b \in 1..n :
                (keys[a] # NoKey /\ keys[a] = keys[b] /\ rank[a] < rank[b]) =>
                    /\ keys[a] \in DOMAIN assets_by_key
                    /\ assets_by_key[keys[a]] # subject_assets[b]
                    /\ {m \in 1..n : keys[m] = keys[a]} = {a, b} =>
                           assets_by_key[keys[a]] = subject_assets[a]

\* The loop ended; the candidate of the better host arrived second and took
\* the key from the candidate of the worse host.
C2_Witness ==
    /\ pc = "reconcile"
    /\ idx > Len(subject_assets)
    /\ \E a, b \in 1..Len(subject_assets) :
           /\ b < a
           /\ asset_key(subject_assets[a]) # NoKey
           /\ asset_key(subject_assets[a]) = asset_key(subject_assets[b])
           /\ HostRank(subject_assets[a]) < HostRank(subject_assets[b])
           /\ assets_by_key[asset_key(subject_assets[a])] = subject_assets[a]

\* C3 (failed probe): the fallback candidate of a key whose probe did not
\* answer OK never occupies the key and is in no manifest.
C3_FailedProbeExcluded ==
    \A k \in DOMAIN probed :
        probed[k] # StatusOk =>
            /\ k \in DOMAIN assets_by_key => assets_by_key[k] # TelmidAssets[k]
            /\ TelmidAssets[k] \notin Range(manifest)
            /\ TelmidAssets[k] \notin Range(first_manifest)

\* main returned with a manifest, a probe having failed.
C3_Witness ==
    /\ pc = "done"
    /\ manifest # <<>>
    /\ \E k \in DOMAIN probed : probed[k] # StatusOk

\* The first chunk of a body does not carry the signature: there is no
\* chunk, or the chunk without its leading white space does not start with
\* "%PDF".
LacksSignature(first_bytes) ==
    first_bytes = None \/ ~StartsWith(LStrip(first_bytes), S("%PDF"))

\* C4 (signature enforcement): after download_pdf returned from a body that
\* was transported to its end and whose first chunk lacks the signature, it
\* has reported failure, no file exists at the destination and the candidate
\* is not in the manifest.
C4_SignatureEnforced ==
    (last.kind = "complete" /\ LacksSignature(last.first_bytes)) =>
        /\ ~last.result
        /\ LastAsset.local_path \notin DOMAIN files
        /\ LastAsset \notin Range(manifest)

\* download_pdf has just returned: it had written a whole body that starts
\* with something else than the signature.
C4_Witness ==
    /\ pc = "fetch"
    /\ last.kind = "complete"
    /\ last.written # <<>>
    /\ LacksSignature(last.first_bytes)

\* just returned False, however the download failed, no file is at the
\* destination of its candidate and the candidate is not in the manifest;
\* and a file that stands later in the run at the destination of a candidate
\* that failed belongs to a later call, for another candidate with the same
\* path.
C5_DeletedAtReturn ==
    /\ (pc = "fetch" /\ last.kind # "none" /\ ~last.result) =>
           /\ LastAsset.local_path \notin DOMAIN files
           /\ LastAsset \notin Range(manifest)
    /\ pc \in {"fetch", "stream", "done"} =>
           \A i \in 1..(fidx - 1) :
               (/\ sorted_assets[i] \notin Range(manifest)
                /\ sorted_assets[i].local_path \in DOMAIN files) =>
                   \E j \in (i + 1)..fidx :
                       /\ j <= Len(sorted_assets)
                       /\ j = fidx => pc = "stream"
                       /\ sorted_assets[j].local_path
                              = sorted_assets[i].local_path

\* The second manifest keeps the first one: the candidates of the first are
\* in it, in the same order.
KeepsFirstManifest ==
    SelectSeq(manifest, LAMBDA asset : asset \in Range(first_manifest))
        = first_manifest

\* A file stands at the destination of the candidate at place i of the
\* sorted list when the second run comes to it: a candidate that the first
\* run accepted, or one that the second run accepted before it, has that
\* destination path.
FileStands(i) ==
    \E asset \in Range(first_manifest)
                    \cup ({sorted_assets[j] : j \in 1..(i - 1)}
                              \cap Range(manifest)) :
        asset.local_path = sorted_assets[i].local_path

\* C6 (idempotent re-run), as the code has it: a second Fetch & Validate on
\* the same final merged map and the storage tree of the first run requests
\* exactly the candidates at whose destination path no file stands when
\* their turn comes: it requests none that the first run accepted, and it
\* requests again a candidate that the first run did not accept unless a
\* candidate accepted in the first run, or before it in the second, has the
\* same destination path, in which case it skips it.  Its manifest keeps the
\* first one; when the first run accepted every candidate of the map it
\* requests nothing and the two manifests are identical.
C6_RerunIdempotent ==
    (pc = "done" /\ run = 2) =>
        /\ \A i \in 1..Len(sorted_assets) :
               sorted_assets[i] \in requested <=> ~FileStands(i)
        /\ requested \cap Range(first_manifest) = {}
        /\ KeepsFirstManifest
        /\ Range(first_manifest) = Range(sorted_assets) =>
               requested = {} /\ manifest = first_manifest

\* The second run ended: it requested nothing for a candidate whose download
\* had failed in the first run, a later call of the first run having
\* written the file of another candidate to the same destination path, and
\* accepted it.
C6_Witness ==
    /\ pc = "done"
    /\ run = 2
    /\ first_manifest # <<>>
    /\ manifest # first_manifest
    /\ \E i \in 1..Len(sorted_assets) :
           /\ sorted_assets[i] \notin Range(first_manifest)
           /\ sorted_assets[i] \notin requested
           /\ sorted_assets[i] \in Range(manifest)
           /\ FileStands(i)

\* The second run ended: it skipped what the first had accepted and
\* requested again what the first had failed to download.
C6_Retried ==
    /\ pc = "done"
    /\ run = 2
    /\ first_manifest # <<>>
    /\ requested # {}
    /\ manifest # first_manifest

\* C6 as the specification states it: the second run requests nothing and
\* its manifest is identical to the first one.
C6_Original ==
    (pc = "done" /\ run = 2) =>
        requested = {} /\ manifest = first_manifest

\* The index in seq of the candidate that reconciliation keeps for key:
\* among the candidates of the key, the first of those of the best rank.
Winner(seq, key) ==
    LET of_key == {i \in 1..Len(seq) : asset_key(seq[i]) = key}
    IN  CHOOSE i \in of_key :
            \A j \in of_key :
                \/ HostRank(seq[i]) < HostRank(seq[j])
                \/ HostRank(seq[i]) = HostRank(seq[j]) /\ i <= j

\* C7 (earliest among the best rank): at every point of the reconciliation
\* loop of a subject, each Canonical Key of a candidate merged so far is
\* occupied by the earliest-arrived of the candidates of the best rank
\* among them: an occupant gives way only to a strictly better rank, and on
\* equal rank the first seen stays.
C7_EarliestOfBestRank ==
    pc = "reconcile" =>
        LET merged == SubSeq(subject_assets, 1, idx - 1)
            keys == {asset_key(merged[i]) : i \in 1..Len(merged)} \ {NoKey}
        IN  \A key \in keys :
                /\ key \in DOMAIN assets_by_key
                /\ assets_by_key[key] = merged[Winner(merged, key)]

\* The loop ended; two different candidates of one key came from hosts of
\* the same rank, the best among the candidates of the key, and the first
\* of them has the key.
C7_Witness ==
    /\ pc = "reconcile"
    /\ idx > Len(subject_assets)
    /\ \E a, b \in 1..Len(subject_assets) :
           /\ a < b
           /\ subject_assets[a] # subject_assets[b]
           /\ asset_key(subject_assets[a]) # NoKey
           /\ asset_key(subject_assets[a]) = asset_key(subject_assets[b])
           /\ HostRank(subject_assets[a]) = HostRank(subject_assets[b])
           /\ Winner(subject_assets, asset_key(subject_assets[a])) = a
           /\ assets_by_key[asset_key(subject_assets[a])] = subject_assets[a]

\* The expected keys that harvested candidates have.
HarvestedKeys ==
    {asset_key(raw[i]) : i \in 1..Len(raw)} \cap ExpectedKeySet

\* Gap synthesis is over: the dict is the final merged map.
MapIsFinal == pc = "synthesize" /\ gap > Len(ExpectedKeys)

\* C8 (harvested against fallback), as the code has it: in the final merged
\* map a key that has a harvested candidate is occupied by the harvested
\* candidate that reconciliation kept, whatever the rank of its host and
\* whether or not the fallback URL of the key answers OK, and no probe was
\* sent for the key; a fallback candidate occupies only keys that no
\* harvested candidate has.
C8_HarvestedKeepsKey ==
    MapIsFinal =>
        /\ \A key \in HarvestedKeys :
               /\ key \in DOMAIN assets_by_key
               /\ assets_by_key[key] = raw[Winner(raw, key)]
               /\ key \notin DOMAIN probed
        /\ \A key \in DOMAIN probed : key \notin HarvestedKeys

\* The final merged map holds a harvested candidate whose host ranks worse
\* than the host of the fallback candidate of its key, the fallback URL
\* answering OK, and holds a fallback candidate under another key.
C8_Witness ==
    /\ MapIsFinal
    /\ \E key \in HarvestedKeys :
           /\ head_status[key] = StatusOk
           /\ HostRank(TelmidAssets[key]) < HostRank(assets_by_key[key])
           /\ assets_by_key[key] = raw[Winner(raw, key)]
    /\ \E key \in DOMAIN probed : assets_by_key[key] = TelmidAssets[key]

\* C8 as the specification states it: a key that has a harvested candidate
\* and a fallback candidate whose URL answers OK is occupied by the one of
\* the strictly better rank, the harvested one on a tie.
C8_Original ==
    MapIsFinal =>
        \A key \in HarvestedKeys :
            head_status[key] = StatusOk =>
                LET harvested == raw[Winner(raw, key)]
                    fallback == TelmidAssets[key]
                IN  assets_by_key[key] =
                        IF HostRank(fallback) < HostRank(harvested)
                        THEN fallback ELSE harvested

\* The first step of Fetch & Validate.
FetchStep == DownloadSkip \/ DownloadRefused \/ DownloadOpen \/ Finish

\* C9 (missing set): once gap synthesis is over, the missing set that main
\* reports is exactly the set of the expected keys that are not in the
\* dict, each once, and main, whether the set is empty or not, goes on to
\* the download loop over all the candidates of the dict.
C9_MissingSet ==
    pc \in {"fetch", "stream", "done"} =>
        /\ Range(missing_keys) = ExpectedKeySet \ DOMAIN assets_by_key
        /\ Len(missing_keys) = Cardinality(Range(missing_keys))
        /\ Range(sorted_assets)
               = {assets_by_key[key] : key \in DOMAIN assets_by_key}
        /\ (pc = "fetch" /\ fidx = 1) => ENABLED FetchStep

\* main returned after it had reported a missing set that is not empty and
\* had downloaded candidates.
C9_Witness ==
    /\ pc = "done"
    /\ run = 1
    /\ missing_keys # <<>>
    /\ manifest # <<>>

\* The number of source pages of all subjects.
NumPages ==
    LET count[i \in 0..Len(SubjectCodes)] ==
            IF i = 0 THEN 0
            ELSE count[i - 1] + Len(SUBJECT_SOURCES[SubjectCodes[i]].pages)
    IN  count[Len(SubjectCodes)]

\* main has returned 0 and left nothing out: every page was fetched, a
\* page whose fetch failed added no candidate, every expected key is in the
\* dict or was probed without success, and download_pdf was called for every
\* candidate of the dict: it is in the manifest, or its URL was requested
\* and it has no file.
RunComplete ==
    /\ pc = "done"
    /\ run = 1
    /\ exit_status = 0
    /\ Len(pages) = NumPages
    /\ \A i \in 1..Len(pages) : ~pages[i].ok => pages[i].count = 0
    /\ \A key \in ExpectedKeySet :
           \/ key \in DOMAIN assets_by_key
           \/ key \in DOMAIN probed /\ probed[key] # StatusOk
    /\ fidx = Len(sorted_assets) + 1
    /\ \A i \in 1..Len(sorted_assets) :
           \/ sorted_assets[i] \in Range(manifest)
           \/ /\ sorted_assets[i] \in requested
              /\ sorted_assets[i].local_path \notin DOMAIN files

\* C10 (the run completes): whatever pages, probes and downloads fail, main
\* reaches its last step and returns 0, no failure having kept another
\* page, key or candidate from being processed.  A page with a href that
\* urllib.parse rejects refutes it: the ValueError ends the run in
\* harvest_subject, with exit status 1.
C10_RunCompletes == <>RunComplete

\* The candidates of the dict, as a set.
MapValues == {assets_by_key[key] : key \in DOMAIN assets_by_key}

\* C11 (order of the attempts, no retry): at every point of Fetch &
\* Validate the calls of download_pdf made so far are the first elements of
\* the sorted list, one call for each, and when the run ends the calls are
\* exactly the candidates of the final merged map, each once, in strictly
\* ascending order of the sort key: no candidate, failed or not, was
\* attempted twice.
C11_AttemptsInOrder ==
    pc \in {"fetch", "stream", "done"} =>
        /\ Len(attempts) = IF pc = "stream" THEN fidx ELSE fidx - 1
        /\ Len(attempts) <= Len(sorted_assets)
        /\ attempts = SubSeq(sorted_assets, 1, Len(attempts))
        /\ pc = "done" =>
               /\ Range(attempts) = MapValues
               /\ Len(attempts) = Cardinality(MapValues)
               /\ \A i \in 1..(Len(attempts) - 1) :
                      KeyLess(SortKey(attempts[i]), SortKey(attempts[i + 1]))

\* The first run ended after a failed download that was not the last call:
\* the calls went on with the next candidates.
C11_Witness ==
    /\ pc = "done"
    /\ run = 1
    /\ Len(attempts) >= 3
    /\ \E i \in 1..(Len(attempts) - 1) : attempts[i] \notin Range(manifest)

\* host is a host of the preference list: a listed domain or a subdomain of
\* one.
ListedHost(host) ==
    \E d \in 1..Len(PREFERRED_DOMAINS) :
        \/ host = PREFERRED_DOMAINS[d]
        \/ EndsWith(host, S(".") \o PREFERRED_DOMAINS[d])

\* The host of the URL of an asset is not a host of the preference list.
Unlisted(asset) == ~ListedHost(Lower(Netloc(asset.pdf_url)))

\* The place in raw of the first candidate of the Canonical Key key.
FirstOfKey(key) ==
    CHOOSE i \in 1..Len(raw) :
        /\ asset_key(raw[i]) = key
        /\ \A j \in 1..(i - 1) : asset_key(raw[j]) # key

\* C12 (hosts outside the list rank last): every harvested candidate whose
\* host is neither a listed domain nor a subdomain of one has the worst
\* rank, the length of the list, and never replaces an incumbent: when such
\* a candidate occupies a key it is the first candidate harvested for the
\* key.  host_rank tests host.endswith(domain), so the host
\* "www.nottelmidtice.com" has the rank of "telmidtice.com" and its
\* candidate takes the key from a candidate of "www.men.gov.ma".
C12_UnlistedRanksLast ==
    /\ \A i \in 1..Len(raw) :
           Unlisted(raw[i]) => HostRank(raw[i]) = Len(PREFERRED_DOMAINS)
    /\ \A key \in DOMAIN assets_by_key :
           (Unlisted(assets_by_key[key]) /\ key \notin DOMAIN probed) =>
               assets_by_key[key] = raw[FirstOfKey(key)]

\* The rank of a candidate's host read from the preference list itself: the
\* position of the first listed domain that the host equals or is a
\* subdomain of, and the length of the list for a host outside the list.
ListRank(asset) ==
    (CHOOSE only \in {(LET hits == {d \in 1..Len(PREFERRED_DOMAINS) :
                              \/ host = PREFERRED_DOMAINS[d]
                              \/ EndsWith(host, S(".") \o PREFERRED_DOMAINS[d])}
             IN  IF hits = {} THEN Len(PREFERRED_DOMAINS)
                 ELSE (CHOOSE d \in hits : \A j \in hits : d <= j) - 1)
        : host \in {Lower(Netloc(asset.pdf_url))}} : TRUE)

\* C2 (preference determinism, ranks read from the preference list): when
\* the reconciliation loop of a subject ends, of two candidates with the
\* same Canonical Key of which the first host ranks strictly higher in the
\* preference list than the second, whichever arrived first, the one of the
\* lower-ranked host does not occupy the key, and the one of the
\* higher-ranked host occupies it when the two are the only candidates of
\* the key.
C2_ByListRank ==
    (pc = "reconcile" /\ idx > Len(subject_assets)) =>
        LET n == Len(subject_assets)
            keys == [i \in 1..n |-> asset_key(subject_assets[i])]
            rank == [i \in 1..n |-> ListRank(subject_assets[i])]
        IN  \A a, b \in 1..n :
                (keys[a] # NoKey /\ keys[a] = keys[b] /\ rank[a] < rank[b]) =>
                    /\ keys[a] \in DOMAIN assets_by_key
                    /\ assets_by_key[keys[a]] # subject_assets[b]
                    /\ {m \in 1..n : keys[m] = keys[a]} = {a, b} =>
                           assets_by_key[keys[a]] = subject_assets[a]

\* The index in seq of the first of the candidates of key whose host has
\* the best rank in the preference list.
ListWinner(seq, key) ==
    LET of_key == {i \in 1..Len(seq) : asset_key(seq[i]) = key}
    IN  CHOOSE i \in of_key :
            \A j \in of_key :
                \/ ListRank(seq[i]) < ListRank(seq[j])
                \/ ListRank(seq[i]) = ListRank(seq[j]) /\ i <= j

\* C7 (earliest among the best rank, ranks read from the preference list):
\* at every point of the reconciliation loop of a subject, each Canonical
\* Key of a candidate merged so far is occupied by the earliest-arrived of
\* the candidates of the key whose host has the best rank in the preference
\* list, a host outside the list having the worst rank.
C7_ByListRank ==
    pc = "reconcile" =>
        LET merged == SubSeq(subject_assets, 1, idx - 1)
            keys == {asset_key(merged[i]) : i \in 1..Len(merged)} \ {NoKey}
        IN  \A key \in keys :
                /\ key \in DOMAIN assets_by_key
                /\ assets_by_key[key] = merged[ListWinner(merged, key)]

\* C13 (the body is held back until it is checked): in every state of Fetch
\* & Validate, the states in the middle of a streamed download included, a
\* file is present at the destination path of a candidate passed to
\* download_pdf only if the call found it there or has transported the
\* whole body and passed the signature check, that is, only if the call has
\* returned True and the candidate is in the manifest.
C13_HeldUntilChecked ==
    pc \in {"fetch", "stream", "done"} =>
        \A i \in 1..Len(attempts) :
            attempts[i].local_path \in DOMAIN files =>
                attempts[i] \in Range(manifest)

\* C14 (idempotent skip): whenever download_pdf is called on a candidate
\* whose destination path exists, whatever the file holds, the step sends
\* no request, starts no stream and no signature check, leaves the storage
\* tree as it is and returns True, so that main appends the candidate to
\* the manifest and goes on to the next candidate.
C14_ExistingSkipped ==
    [][(/\ pc = "fetch"
        /\ fidx <= Len(sorted_assets)
        /\ sorted_assets[fidx].local_path \in DOMAIN files) =>
           /\ requested' = requested
           /\ files' = files
           /\ pc' = "fetch"
           /\ dl' = NoDownload
           /\ last' = [kind |-> "skipped", result |-> TRUE,
                       first_bytes |-> None, written |-> <<>>]
           /\ manifest' = Append(manifest, sorted_assets[fidx])
           /\ attempts' = Append(attempts, sorted_assets[fidx])
           /\ fidx' = fidx + 1]_vars

\* In the first run a candidate whose destination held a file that is not
\* a PDF was skipped: nothing was requested for it, the file is as it was,
\* and the candidate is in the manifest.
C14_Witness ==
    /\ pc = "fetch"
    /\ run = 1
    /\ fidx > 1
    /\ last.kind = "skipped"
    /\ last.result
    /\ LastAsset \notin requested
    /\ LastAsset.local_path \in DOMAIN files
    /\ files[LastAsset.local_path] = S("<html>")
    /\ BadSignature(files[LastAsset.local_path])
    /\ manifest # <<>>
    /\ manifest[Len(manifest)] = LastAsset

\* Gap synthesis is over, in this state or an earlier one.
SynthesisOver == MapIsFinal \/ pc \in {"fetch", "stream", "done"}

\* One step of the run seen from gap synthesis: no entry of the dict is
\* replaced or removed; a probe is sent only by an iteration of the gap
\* loop, for the key of the iteration, when the key is not in the dict and
\* was not probed before; the iteration of an absent key sends the probe.
GapStep ==
    /\ \A key \in DOMAIN assets_by_key :
           /\ key \in DOMAIN assets_by_key'
           /\ pc = "synthesize" => assets_by_key'[key] = assets_by_key[key]
    /\ IF pc = "synthesize" /\ gap <= Len(ExpectedKeys)
       THEN LET key == ExpectedKeys[gap]
            IN  IF key \in DOMAIN assets_by_key
                THEN probed' = probed /\ assets_by_key' = assets_by_key
                ELSE /\ key \notin DOMAIN probed
                     /\ DOMAIN probed' = DOMAIN probed \cup {key}
                     /\ \A other \in DOMAIN probed :
                            probed'[other] = probed[other]
                     /\ DOMAIN assets_by_key' \subseteq
                            DOMAIN assets_by_key \cup {key}
       ELSE probed' = probed

\* C15 (one probe per gap): gap synthesis sends exactly one existence probe
\* for each key of the Expected Key Space that the reconciled map lacks and
\* none for a key that is occupied, and it never replaces or removes an
\* entry the map had before: every step keeps the entries of the map, a
\* probe goes only to an absent key not probed before, and once synthesis
\* is over the probed keys are exactly the expected keys without a
\* harvested candidate.
C15_OneProbePerGap ==
    /\ [](SynthesisOver =>
              /\ DOMAIN probed = ExpectedKeySet \ HarvestedKeys
              /\ \A i \in 1..Len(raw) :
                     asset_key(raw[i]) # NoKey =>
                         /\ asset_key(raw[i]) \in DOMAIN assets_by_key
                         /\ assets_by_key[asset_key(raw[i])] \in Range(raw))
    /\ [][GapStep]_vars

\* Gap synthesis is over with a harvested key that was not probed and kept
\* its harvested candidate, and with every other expected key probed, the
\* probe of one of them having succeeded.
C15_Witness ==
    /\ MapIsFinal
    /\ \E key \in HarvestedKeys :
           key \notin DOMAIN probed /\ assets_by_key[key] \in Range(raw)
    /\ \E key \in DOMAIN probed :
           probed[key] = StatusOk /\ key \in DOMAIN assets_by_key
    /\ Cardinality(DOMAIN probed) =
           Cardinality(ExpectedKeySet) - Cardinality(HarvestedKeys)

\* The fallback candidate of key holds the key, and its own subject, year,
\* session and type are those of the key.
FallbackOccupies(key) ==
    /\ key \in DOMAIN assets_by_key
    /\ assets_by_key[key] = TelmidAssets[key]
    /\ asset_key(assets_by_key[key]) = key
    /\ assets_by_key[key].subject_code = key[1]
    /\ assets_by_key[key].year = IntToStr(key[2])
    /\ assets_by_key[key].session = key[3]
    /\ assets_by_key[key].asset_type = key[4]

\* Once reconciliation is over a key enters the dict only in the iteration
\* of the gap loop that probes it, the probe answering OK.
OccupiedByProbe ==
    pc \notin {"harvest", "reconcile"} =>
        \A key \in DOMAIN assets_by_key' \ DOMAIN assets_by_key :
            /\ pc = "synthesize"
            /\ gap <= Len(ExpectedKeys)
            /\ key = ExpectedKeys[gap]
            /\ key \notin DOMAIN probed
            /\ head_status[key] = StatusOk
            /\ key \in DOMAIN probed'
            /\ probed'[key] = StatusOk

\* C16 (a gap whose probe succeeds): for a key of the Expected Key Space
\* absent after reconciliation, if the existence probe of its fallback
\* answers OK the key is occupied by the synthesized candidate, whose own
\* subject, year, session and type equal the key; the key is occupied in
\* the step of the probe and not before; and once reconciliation is over
\* the run comes to its end with every gap probed and the candidate of
\* every gap whose probe answered OK passed to download_pdf in that run.
C16_ProbedFallback ==
    /\ [](\A key \in DOMAIN probed :
              probed[key] = StatusOk => FallbackOccupies(key))
    /\ [][OccupiedByProbe]_vars
    /\ (pc = "synthesize")
          ~> (/\ run = 1
              /\ pc = "done"
              /\ DOMAIN probed = ExpectedKeySet \ HarvestedKeys
              /\ \A key \in DOMAIN probed :
                     probed[key] = StatusOk =>
                         TelmidAssets[key] \in Range(attempts))

\* The first run ended; a gap was probed, with the answer OK, its fallback
\* candidate holds the key and was passed to download_pdf.
C16_Witness ==
    /\ pc = "done"
    /\ run = 1
    /\ \E key \in DOMAIN probed :
           /\ probed[key] = StatusOk
           /\ key \notin HarvestedKeys
           /\ FallbackOccupies(key)
           /\ assets_by_key[key] \in Range(attempts)

\* The dict that the reconciliation loop makes of a sequence of candidates
\* taken in order, starting from the empty dict.
RECURSIVE Merged(_)
Merged(seq) ==
    IF seq = <<>> THEN EmptyMap
    ELSE Reconcile(Merged(SubSeq(seq, 1, Len(seq) - 1)), seq[Len(seq)])

\* The number of pages of the first count subjects.
PagesThrough(count) ==
    LET total[i \in 0..Len(SubjectCodes)] ==
            IF i = 0 THEN 0
            ELSE total[i - 1] + Len(SUBJECT_SOURCES[SubjectCodes[i]].pages)
    IN  total[count]

\* C17 (reconciliation against collection), as the claim has it: no key of
\* assets_by_key is claimed or replaced before the candidates of all pages
\* of all subjects have been collected.
C17_Original ==
    DOMAIN assets_by_key # {} => Len(pages) = NumPages

\* C17 (reconciliation against collection), as the code has it: the
\* candidates of a subject are merged once all pages of that subject have
\* been fetched, before the pages of the next subject are; they are merged
\* in page and anchor order, so that at every point of the first loop of
\* main the dict is the one that the reconciliation loop makes of the raw
\* candidates collected so far, the unmerged ones of the current subject
\* left out, taken in source, page and anchor order; when gap synthesis
\* starts, all pages have been fetched and the dict is the reconciliation
\* of the full ordered sequence of raw candidates.
C17_MergedPerSubject ==
    /\ pc \in {"harvest", "reconcile"} =>
           LET before == Len(raw) - Len(subject_assets)
               merged == IF pc = "reconcile" THEN idx - 1 ELSE 0
           IN  /\ before >= 0
               /\ subject_assets = SubSeq(raw, before + 1, Len(raw))
               /\ Len(pages) = IF pc = "reconcile" THEN PagesThrough(subj)
                               ELSE PagesThrough(subj - 1) + page - 1
               /\ assets_by_key = Merged(SubSeq(raw, 1, before + merged))
    /\ (pc = "synthesize" /\ gap = 1) =>
           /\ Len(pages) = NumPages
           /\ assets_by_key = Merged(raw)

\* The candidates of a subject are merged, those of two pages that both
\* brought candidates, while the pages of a later subject are still to be
\* fetched; the second of two candidates of one key has replaced the first.
C17_Witness ==
    /\ pc = "reconcile"
    /\ subj < Len(SubjectCodes)
    /\ idx > Len(subject_assets)
    /\ Len(pages) < NumPages
    /\ \E i, j \in 1..Len(pages) :
           i < j /\ pages[i].count > 0 /\ pages[j].count > 0
    /\ \E a, b \in 1..Len(raw) :
           /\ a < b
           /\ asset_key(raw[a]) # NoKey
           /\ asset_key(raw[a]) = asset_key(raw[b])
           /\ assets_by_key[asset_key(raw[a])] = raw[b]
           /\ raw[a] # raw[b]
    /\ assets_by_key = Merged(raw)

\* A candidate that has no canonical identity: its year or its session is
\* unclassified, its year is not an integer, or its session or its asset
\* type is outside the target enumerations.
Unclassified(asset) ==
    \/ asset.year = None
    \/ asset.session = None
    \/ ~IsInt(asset.year)
    \/ asset.session \notin {TARGET_SESSIONS[i] : i \in 1..Len(TARGET_SESSIONS)}
    \/ asset.asset_type \notin
           {TARGET_ASSET_TYPES[i] : i \in 1..Len(TARGET_ASSET_TYPES)}

\* Candidates of the kinds that the harvester does not produce: a year that
\* is not an integer, a session and an asset type outside the enumerations.
OddCandidates ==
    { ExamAsset(S("Math"), S("Mathématiques"), S("20x8"), S("Normale"),
                S("MainExam"), S("Sujet"), S("https://telmidtice.com/"),
                S("https://telmidtice.com/a.pdf"), S("Math/a.pdf")),
      ExamAsset(S("Math"), S("Mathématiques"), S("2008"), S("Principale"),
                S("MainExam"), S("Sujet"), S("https://telmidtice.com/"),
                S("https://telmidtice.com/b.pdf"), S("Math/b.pdf")),
      ExamAsset(S("Math"), S("Mathématiques"), S("2008"), S("Normale"),
                S("Annexe"), S("Annexe"), S("https://telmidtice.com/"),
                S("https://telmidtice.com/c.pdf"), S("Math/c.pdf")) }

\* C18 (candidates without a key): a harvested candidate whose year or
\* session is unclassified, whose year is not an integer, or whose session
\* or asset type is outside the target enumerations has no Canonical Key;
\* it occupies no key of assets_by_key, is never passed to download_pdf,
\* is never requested and is in no manifest.  The reconciliation loop
\* leaves the dict as it is for such a candidate, also for one of a kind
\* that the harvester does not produce.
C18_UnclassifiedExcluded ==
    /\ \A asset \in {raw[i] : i \in 1..Len(raw)} :
           Unclassified(asset) =>
               /\ asset_key(asset) = NoKey
               /\ \A key \in DOMAIN assets_by_key : assets_by_key[key] # asset
               /\ \A i \in 1..Len(sorted_assets) : sorted_assets[i] # asset
               /\ \A i \in 1..Len(attempts) : attempts[i] # asset
               /\ asset \notin requested
               /\ \A i \in 1..Len(manifest) : manifest[i] # asset
               /\ \A i \in 1..Len(first_manifest) : first_manifest[i] # asset
    /\ pc = "reconcile" =>
           \A asset \in OddCandidates :
               /\ Unclassified(asset)
               /\ asset_key(asset) = NoKey
               /\ Reconcile(assets_by_key, asset) = assets_by_key

\* The first run ended; a candidate without a year and a candidate without
\* a session were harvested, and other candidates were passed to
\* download_pdf.
C18_Witness ==
    /\ pc = "done"
    /\ run = 1
    /\ attempts # <<>>
    /\ \E i, j \in 1..Len(raw) :
           /\ raw[i].year = None
           /\ raw[j].session = None
           /\ asset_key(raw[i]) = NoKey
           /\ asset_key(raw[j]) = NoKey

\* The destination paths of the candidates of a sequence.
PathsOf(seq) == {seq[i].local_path : i \in 1..Len(seq)}

\* C19 (one writer per destination path): candidates stored under
\* different Canonical Keys, harvested or synthesized, have different
\* destination paths (the dict holds as many paths as keys, and so does
\* the sorted list when the download loop starts), and the candidates
\* passed to download_pdf in one run have pairwise different destination
\* paths, so that no path is written or deleted by more than one call.  Two
\* titles whose years are written "20\u0660\u0668" and "20\u0660\u0669"
\* refute it: int() reads the years 2008 and 2009, two keys, and
\* sanitize_filename cuts both to "20", one path.
C19_OneWriterPerPath ==
    /\ pc \in {"reconcile", "synthesize"} =>
           Cardinality({assets_by_key[key].local_path :
                            key \in DOMAIN assets_by_key})
               = Cardinality(DOMAIN assets_by_key)
    /\ (pc = "fetch" /\ fidx = 1) =>
           /\ Cardinality(PathsOf(sorted_assets)) = Len(sorted_assets)
           /\ Len(sorted_assets) = Cardinality(DOMAIN assets_by_key)
    /\ pc \in {"fetch", "stream", "done"} =>
           Cardinality(PathsOf(attempts)) = Len(attempts)

\* The year of the candidate is written with the ASCII digits.
AsciiYear(asset) ==
    asset.year # None /\ \A i \in 1..Len(asset.year) : asset.year[i] \in 48..57

\* C19 (one writer per destination path, years in ASCII digits): two
\* candidates stored under different Canonical Keys whose years are both
\* written with the ASCII digits have different destination paths.
C19_AsciiYears ==
    \A k1, k2 \in DOMAIN assets_by_key :
        (/\ k1 # k2
         /\ AsciiYear(assets_by_key[k1])
         /\ AsciiYear(assets_by_key[k2])) =>
            assets_by_key[k1].local_path # assets_by_key[k2].local_path

\* C20 (accepted candidates keep their files): during Fetch & Validate and
\* at its end, every candidate of the manifest is a value of the final
\* merged map, stands once in the manifest, and has a file at its
\* destination path: no later call of download_pdf in the run removes the
\* file of a candidate accepted before, also when a later candidate has the
\* same destination path, since the call for it finds the file and skips.
C20_AcceptedHaveFiles ==
    pc \in {"fetch", "stream", "done"} =>
        /\ Range(manifest) \subseteq MapValues
        /\ \A i \in 1..Len(manifest) :
               manifest[i].local_path \in DOMAIN files
        /\ Cardinality(Range(manifest)) = Len(manifest)

\* The first run ended; a candidate was accepted after a download, a later
\* call failed and removed the file it had written, and the file of the
\* accepted candidate is as the download left it.
C20_Witness ==
    /\ pc = "done"
    /\ run = 1
    /\ \E i, j \in 1..Len(attempts) :
           /\ i < j
           /\ attempts[i] \in Range(manifest)
           /\ attempts[i] \in requested
           /\ attempts[i].local_path \in DOMAIN files
           /\ files[attempts[i].local_path] = S("%PDF-1.4\n%%EOF\n")
           /\ attempts[j] \in requested
           /\ attempts[j] \notin Range(manifest)
           /\ attempts[j].local_path \notin DOMAIN files
           /\ last.kind \in {"complete", "interrupted"}
====
